---- MODULE Spec2Model ----
(***************************************************************************)
(* Model of the response parser and change applier of CodestralCompanion   *)
(* (src-tauri/src/differ.rs) and of the three front ends that decide       *)
(* whether a parsed ChangeSet is applied (agent.rs, chat.rs, tui/runner.rs)*)
(*                                                                         *)
(* Text is a sequence of symbols.  A symbol is either one character        *)
(* ("x", " ", "\n", "1", ...) or one of the literals the parser searches   *)
(* for ("<plan>", "=======", ...).  The literals do not overlap each other *)
(* and none is a substring of another, so str::find of a literal is the    *)
(* position of its symbol, and the byte offset `start + len(literal)` of   *)
(* the code is `start + 1` here.  Offsets are 0-based as in the code and   *)
(* NotFound stands for Option::None.                                       *)
(***************************************************************************)
EXTENDS Integers, Sequences, FiniteSets, TLC

\* ---------------------------------------------------------------- literals

PLAN_OPEN      == "<plan>"
PLAN_CLOSE     == "</plan>"
FILE_CLOSE     == "</file>"
ORIGINAL       == "<<<<<<< ORIGINAL"
SEPARATOR      == "======="
MODIFIED       == ">>>>>>> MODIFIED"
NEW_FILE_CLOSE == "</new_file>"

\* Opening tags matched by the two regular expressions, one symbol per
\* captured path attribute.
FILE_TAG_A     == "<file path=a.rs>"
FILE_TAG_B     == "<file path=b.rs>"
FILE_TAG_ABS   == "<file path=/etc/hosts>"
NEW_TAG_A      == "<new_file path=a.rs>"
NEW_TAG_N      == "<new_file path=sub/n.rs>"
NEW_TAG_UP     == "<new_file path=../up.rs>"

FileTags == {FILE_TAG_A, FILE_TAG_B, FILE_TAG_ABS}
NewFileTags == {NEW_TAG_A, NEW_TAG_N, NEW_TAG_UP}

\* cap[1] of file_pattern / new_file_pattern: the path attribute, as a
\* sequence of path components ("/" first for an absolute path).
CapturedPath(tag) ==
    CASE tag = FILE_TAG_A   -> <<"a.rs">>
      [] tag = FILE_TAG_B   -> <<"b.rs">>
      [] tag = FILE_TAG_ABS -> <<"/", "etc", "hosts">>
      [] tag = NEW_TAG_A    -> <<"a.rs">>
      [] tag = NEW_TAG_N    -> <<"sub", "n.rs">>
      [] tag = NEW_TAG_UP   -> <<"..", "up.rs">>

\* ------------------------------------------------------- string primitives

NotFound == -1

\* str::find(literal): 0-based offset of the first occurrence, or None.
Find(s, sym) ==
    IF \E i \in 1..Len(s) : s[i] = sym
    THEN (CHOOSE i \in 1..Len(s) : s[i] = sym /\ \A j \in 1..(i-1) : s[j] # sym) - 1
    ELSE NotFound

\* &s[from..to] is defined when from <= to <= len; it panics otherwise.
SliceOk(s, from, to) == 0 <= from /\ from <= to /\ to <= Len(s)
Slice(s, from, to) == SubSeq(s, from + 1, to)

Whitespace == {" ", "\n"}

RECURSIVE TrimStart(_)
TrimStart(s) ==
    IF s # <<>> /\ Head(s) \in Whitespace THEN TrimStart(Tail(s)) ELSE s

RECURSIVE TrimEnd(_)
TrimEnd(s) ==
    IF s # <<>> /\ s[Len(s)] \in Whitespace
    THEN TrimEnd(SubSeq(s, 1, Len(s) - 1)) ELSE s

\* str::trim
Trim(s) == TrimEnd(TrimStart(s))

\* str::lines: split at "\n"; a trailing empty line is not produced.
RECURSIVE Lines(_)
Lines(s) ==
    IF s = <<>> THEN <<>>
    ELSE LET nl == Find(s, "\n") IN
         IF nl = NotFound THEN <<s>>
         ELSE <<Slice(s, 0, nl)>> \o Lines(Slice(s, nl + 1, Len(s)))

AsciiDigits == {"0", "1", "2", "3", "4", "5", "6", "7", "8", "9"}

\* The closure given to trim_start_matches in the plan loop.
IsPlanPrefixChar(c) == c \in AsciiDigits \/ c = "." \/ c = "-" \/ c = " "

RECURSIVE TrimStartMatches(_)
TrimStartMatches(s) ==
    IF s # <<>> /\ IsPlanPrefixChar(Head(s)) THEN TrimStartMatches(Tail(s)) ELSE s

\* s[i..].starts_with(pat), i 0-based
StartsWithAt(s, pat, i) ==
    i + Len(pat) <= Len(s) /\ SubSeq(s, i + 1, i + Len(pat)) = pat

\* str::replace(from, to): every match reported by match_indices, scanning
\* left to right without overlap, is replaced.  An empty pattern matches at
\* every character boundary, the two ends included.
RECURSIVE ReplaceAt(_, _, _, _)
ReplaceAt(s, from, to, i) ==
    IF from = <<>>
    THEN IF i >= Len(s) THEN to
         ELSE to \o <<s[i + 1]>> \o ReplaceAt(s, from, to, i + 1)
    ELSE IF i >= Len(s) THEN <<>>
         ELSE IF StartsWithAt(s, from, i)
              THEN to \o ReplaceAt(s, from, to, i + Len(from))
              ELSE <<s[i + 1]>> \o ReplaceAt(s, from, to, i + 1)

\* as Replace, but only the first occurrence is replaced (replacen(.., 1))
ReplaceFirstOnly(s, from, to) ==
    IF \E i \in 0..Len(s) : StartsWithAt(s, from, i)
    THEN LET i == CHOOSE k \in 0..Len(s) :
                    StartsWithAt(s, from, k)
                    /\ \A j \in 0..(k-1) : ~StartsWithAt(s, from, j)
         IN Slice(s, 0, i) \o to \o Slice(s, i + Len(from), Len(s))
    ELSE s

Replace(s, from, to) == ReplaceAt(s, from, to, 0)

\* ------------------------------------------------------------------- paths

base_path == <<"/", "proj">>

IsAbsolute(p) == p # <<>> /\ p[1] = "/"

\* Path::join: an absolute argument replaces the base.
Join(base, p) == IF IsAbsolute(p) THEN p ELSE base \o p

\* -------------------------------------------------------------- filesystem
\* A filesystem maps a path to [kind, content]; kind is "file", "missing",
\* "readonly" (readable, writes fail) or "locked" (exists, but neither
\* readable nor writable).

NoFile == [kind |-> "missing", content |-> <<>>]

Lookup(disk, p) == IF p \in DOMAIN disk THEN disk[p] ELSE NoFile

\* fs::read_to_string(path).unwrap_or_default()
ReadOrDefault(disk, p) ==
    IF Lookup(disk, p).kind \in {"file", "readonly"}
    THEN Lookup(disk, p).content ELSE <<>>

\* fs::write(path, content) succeeds unless the target refuses writes.
Writable(disk, p) == Lookup(disk, p).kind \in {"file", "missing"}

\* The disk after fs::write(path, content): the whole content is replaced
\* when the write succeeds and nothing changes when it fails.
Write(disk, p, content) ==
    IF Writable(disk, p)
    THEN (p :> [kind |-> "file", content |-> content]) @@ disk
    ELSE disk

\* ------------------------------------------------------------ change model

FileChange(path, original, modified) ==
    [path |-> path, original |-> original, modified |-> modified,
     description |-> <<>>]

NewFile(path, content) ==
    [path |-> path, content |-> content, description |-> <<>>]

\* ChangeSet::default(); `panicked` records that parse_ai_response unwound
\* instead of returning.
EmptyChangeSet ==
    [panicked |-> FALSE, plan |-> <<>>, modifications |-> <<>>,
     new_files |-> <<>>, deletions |-> <<>>]

Panicked == [EmptyChangeSet EXCEPT !.panicked = TRUE]

\* as is_empty, without a look at the deletions
is_empty_ignoring_deletions(cs) ==
    cs.modifications = <<>> /\ cs.new_files = <<>>

\* ChangeSet::is_empty
is_empty(cs) ==
    cs.modifications = <<>> /\ cs.new_files = <<>> /\ cs.deletions = <<>>

\* ------------------------------------------------------------------ parser

\* The body of `for line in plan_content.lines()`.
RECURSIVE PlanSteps(_)
PlanSteps(lines) ==
    IF lines = <<>> THEN <<>>
    ELSE LET trimmed == Trim(Head(lines))
             cleaned == TrimStartMatches(trimmed)
         IN (IF trimmed # <<>> /\ cleaned # <<>> THEN <<cleaned>> ELSE <<>>)
            \o PlanSteps(Tail(lines))

\* "Extract plan": [panicked, plan].
\* as ExtractPlan, but the plan runs to the last </plan> (rfind)
ExtractPlanToLastClose(response) ==
    LET plan_start == Find(response, PLAN_OPEN)
        plan_end   == IF Find(response, PLAN_CLOSE) = NotFound THEN NotFound
                      ELSE (CHOOSE i \in 1..Len(response) :
                              /\ response[i] = PLAN_CLOSE
                              /\ \A j \in (i + 1)..Len(response) : response[j] # PLAN_CLOSE) - 1
    IN IF plan_start = NotFound \/ plan_end = NotFound
       THEN [panicked |-> FALSE, plan |-> <<>>]
       ELSE IF ~SliceOk(response, plan_start + 1, plan_end)
            THEN [panicked |-> TRUE, plan |-> <<>>]
            ELSE [panicked |-> FALSE,
                  plan |-> PlanSteps(Lines(Slice(response, plan_start + 1, plan_end)))]

ExtractPlan(response) ==
    LET plan_start == Find(response, PLAN_OPEN)
        plan_end   == Find(response, PLAN_CLOSE)
    IN IF plan_start = NotFound \/ plan_end = NotFound
       THEN [panicked |-> FALSE, plan |-> <<>>]
       ELSE IF ~SliceOk(response, plan_start + 1, plan_end)
            THEN [panicked |-> TRUE, plan |-> <<>>]
            ELSE [panicked |-> FALSE,
                  plan |-> PlanSteps(Lines(Slice(response, plan_start + 1, plan_end)))]

\* captures_iter: the 1-based positions of the opening tags, in order.
RECURSIVE TagPositions(_, _, _)
TagPositions(response, tags, i) ==
    IF i > Len(response) THEN <<>>
    ELSE (IF response[i] \in tags THEN <<i>> ELSE <<>>)
         \o TagPositions(response, tags, i + 1)

\* The text from the end of the opening tag at position i to the next
\* closing literal: [closed, content].
BlockContent(response, i, closing) ==
    LET tag_start    == i
        relative_end == Find(Slice(response, tag_start, Len(response)), closing)
    IN IF relative_end = NotFound
       THEN [closed |-> FALSE, content |-> <<>>]
       ELSE [closed |-> TRUE,
             content |-> Slice(response, tag_start, tag_start + relative_end)]

\* as MarkerFragments, but a block without >>>>>>> MODIFIED is read to its end
MarkerFragmentsOpenEnded(content) ==
    LET orig_start == Find(content, ORIGINAL)
        sep        == Find(content, SEPARATOR)
        mod_end    == IF Find(content, MODIFIED) = NotFound THEN Len(content)
                      ELSE Find(content, MODIFIED)
    IN IF orig_start = NotFound \/ sep = NotFound
       THEN [found |-> FALSE, panicked |-> FALSE,
             original |-> <<>>, modified |-> <<>>]
       ELSE IF ~SliceOk(content, orig_start + 1, sep)
               \/ ~SliceOk(content, sep + 1, mod_end)
            THEN [found |-> TRUE, panicked |-> TRUE,
                  original |-> <<>>, modified |-> <<>>]
            ELSE [found |-> TRUE, panicked |-> FALSE,
                  original |-> Trim(Slice(content, orig_start + 1, sep)),
                  modified |-> Trim(Slice(content, sep + 1, mod_end))]

\* "Parse ORIGINAL/MODIFIED markers": the three finds and the two slices.
\* found = all three markers were found; panicked = a slice was out of order.
MarkerFragments(content) ==
    LET orig_start == Find(content, ORIGINAL)
        sep        == Find(content, SEPARATOR)
        mod_end    == Find(content, MODIFIED)
    IN IF orig_start = NotFound \/ sep = NotFound \/ mod_end = NotFound
       THEN [found |-> FALSE, panicked |-> FALSE,
             original |-> <<>>, modified |-> <<>>]
       ELSE IF ~SliceOk(content, orig_start + 1, sep)
               \/ ~SliceOk(content, sep + 1, mod_end)
            THEN [found |-> TRUE, panicked |-> TRUE,
                  original |-> <<>>, modified |-> <<>>]
            ELSE [found |-> TRUE, panicked |-> FALSE,
                  original |-> Trim(Slice(content, orig_start + 1, sep)),
                  modified |-> Trim(Slice(content, sep + 1, mod_end))]

\* as FileBlock, without the test `new_content != current_content`
FileBlockAlwaysPushed(response, i, base, disk) ==
    LET full_path == Join(base, CapturedPath(response[i]))
        block     == BlockContent(response, i, FILE_CLOSE)
        frag      == MarkerFragments(block.content)
        current_content == ReadOrDefault(disk, full_path)
        new_content == Replace(current_content, frag.original, frag.modified)
    IN IF ~block.closed \/ ~frag.found
       THEN [panicked |-> FALSE, entries |-> <<>>]
       ELSE IF frag.panicked
            THEN [panicked |-> TRUE, entries |-> <<>>]
            ELSE [panicked |-> FALSE,
                  entries |-> <<FileChange(full_path, current_content, new_content)>>]

\* One iteration of the file loop for the tag at position i:
\* [panicked, entries] with entries the FileChanges pushed (none or one).
FileBlock(response, i, base, disk) ==
    LET full_path == Join(base, CapturedPath(response[i]))
        block     == BlockContent(response, i, FILE_CLOSE)
        frag      == MarkerFragments(block.content)
        current_content == ReadOrDefault(disk, full_path)
        new_content == Replace(current_content, frag.original, frag.modified)
    IN IF ~block.closed \/ ~frag.found
       THEN [panicked |-> FALSE, entries |-> <<>>]
       ELSE IF frag.panicked
            THEN [panicked |-> TRUE, entries |-> <<>>]
            ELSE [panicked |-> FALSE,
                  entries |-> IF new_content # current_content
                              THEN <<FileChange(full_path, current_content, new_content)>>
                              ELSE <<>>]

\* "Extract file modifications": the loop over the captures.
RECURSIVE ExtractModifications(_, _, _, _)
ExtractModifications(response, positions, base, disk) ==
    IF positions = <<>> THEN [panicked |-> FALSE, entries |-> <<>>]
    ELSE LET first == FileBlock(response, Head(positions), base, disk) IN
         IF first.panicked THEN [panicked |-> TRUE, entries |-> <<>>]
         ELSE LET rest == ExtractModifications(response, Tail(positions), base, disk) IN
              [panicked |-> rest.panicked,
               entries  |-> IF rest.panicked THEN <<>> ELSE first.entries \o rest.entries]

\* The results of the marker scan (lines 198-202) of the closed file blocks,
\* in the order the loop reaches them, up to the first one that panics.
RECURSIVE ScannedFragments(_, _)
ScannedFragments(response, positions) ==
    IF positions = <<>> THEN <<>>
    ELSE LET block == BlockContent(response, Head(positions), FILE_CLOSE)
             frag  == MarkerFragments(block.content)
         IN IF ~block.closed THEN ScannedFragments(response, Tail(positions))
            ELSE IF frag.panicked THEN <<[tag |-> Head(positions), frag |-> frag]>>
            ELSE <<[tag |-> Head(positions), frag |-> frag]>>
                 \o ScannedFragments(response, Tail(positions))

\* as NewFileBlock, but a block with empty content is not recorded
NewFileBlockSkipEmpty(response, i, base) ==
    LET full_path == Join(base, CapturedPath(response[i]))
        block     == BlockContent(response, i, NEW_FILE_CLOSE)
    IN IF block.closed /\ Trim(block.content) # <<>>
       THEN <<NewFile(full_path, Trim(block.content))>> ELSE <<>>

\* One iteration of the new-file loop for the tag at position i.
NewFileBlock(response, i, base) ==
    LET full_path == Join(base, CapturedPath(response[i]))
        block     == BlockContent(response, i, NEW_FILE_CLOSE)
    IN IF block.closed THEN <<NewFile(full_path, Trim(block.content))>> ELSE <<>>

\* "Extract new files".
RECURSIVE ExtractNewFiles(_, _, _)
ExtractNewFiles(response, positions, base) ==
    IF positions = <<>> THEN <<>>
    ELSE NewFileBlock(response, Head(positions), base)
         \o ExtractNewFiles(response, Tail(positions), base)

\* parse_ai_response(response, base_path), reading files from `disk`.
parse_ai_response(response, base, disk) ==
    LET plan == ExtractPlan(response)
        mods == ExtractModifications(response,
                    TagPositions(response, FileTags, 1), base, disk)
    IN IF plan.panicked \/ mods.panicked THEN Panicked
       ELSE [panicked      |-> FALSE,
             plan          |-> plan.plan,
             modifications |-> mods.entries,
             new_files     |-> ExtractNewFiles(response,
                                  TagPositions(response, NewFileTags, 1), base),
             deletions     |-> <<>>]

\* ------------------------------------------------------------------ state

VARIABLES
    response,   \* the text of the model's reply
    fs,         \* the files on disk
    changes,    \* the ChangeSet returned by parse_ai_response
    fragments,  \* what the marker scan of each closed file block produced
    pc,         \* position of the running handler
    typed,      \* number of pieces and blocks the reply was assembled from
    frontend,   \* "agent" (one-shot CLI), "repl" (chat) or "tui"
    mode,       \* ExecutionMode of the agent, ChatMode of the repl and the tui
    dry_run,    \* AgentConfig.dry_run
    log,        \* confirmations asked and apply() calls made for the current reply
    cursor,     \* index of the item the apply loops have reached
    attempt,    \* transport attempts that failed for the current request
    delays,     \* seconds slept before each retry of the current request
    shown,      \* what the front end has put out for the current request
    event,      \* the last thing that happened in the session
    entries,    \* the files the directory walk yields, in walk order
    config,     \* include_extensions, exclude_dirs and max_files of index()
    index,      \* the CodebaseIndex returned by index()
    context,    \* max_tokens and the chunks build_context returned for it
    db,         \* the rows of the persistent index's table `files`
    calls,      \* the index_file calls made so far
    returned,   \* what the last query returned to its caller
    messages,   \* the history of the conversation (ChatSession.messages, App.messages)
    sent,       \* the message list of the last client.chat call
    current_chat, \* the SavedChat: its messages and whether it was stored
    loading,    \* App.loading
    run         \* the successful exchanges since the history was the system message

parseVars  == <<response, fs, changes, fragments, pc, typed>>
policyVars == <<frontend, mode, dry_run, log, cursor, attempt, delays, shown,
                event>>
indexVars  == <<entries, config, index, context>>
storeVars  == <<db, calls, returned>>
chatVars   == <<messages, sent, current_chat, loading, run>>
vars == <<response, fs, changes, fragments, pc, typed,
          frontend, mode, dry_run, log, cursor, attempt, delays, shown, event,
          entries, config, index, context, db, calls, returned,
          messages, sent, current_chat, loading, run>>

\* CodebaseIndex::new
EmptyIndex == [files |-> <<>>, total_tokens_estimate |-> 0]

\* The indexer's variables while no indexing is under way.
NoIndexing ==
    /\ entries = <<>>
    /\ config = [include_extensions |-> <<>>, has_include |-> FALSE,
                 exclude_dirs |-> <<>>, max_files |-> 0]
    /\ index = EmptyIndex
    /\ context = [max_tokens |-> 0, chunks |-> <<>>]

\* The variables of the persistent index while none is open.
Nothing == [op |-> "none"]

NoStore ==
    /\ db = <<>>
    /\ calls = <<>>
    /\ returned = Nothing

\* The variables of a conversation while none is held.
NoChat ==
    /\ messages = <<>>
    /\ sent = <<>>
    /\ current_chat = [messages |-> <<>>, stored |-> FALSE]
    /\ loading = FALSE
    /\ run = [clean |-> FALSE, unsaved |-> 0]

PathA == Join(base_path, CapturedPath(FILE_TAG_A))
PathB == Join(base_path, CapturedPath(FILE_TAG_B))

File(content) == [kind |-> "file", content |-> content]
Locked == [kind |-> "locked", content |-> <<"x">>]

\* The disks a reply is parsed against: a.rs is missing, unreadable, or
\* holds several occurrences of "x"; b.rs holds "y".
ParseDisks ==
    { (PathA :> a) @@ (PathB :> File(<<"y">>)) :
        a \in {NoFile, Locked, File(<<"x", "x", "x", "y", "x">>)} }

\* ------------------------------------------------- replies under the parser

MaxPlanPieces  == 5
MaxFileBlocks  == 2
MaxFileSymbols == 1
MaxNewPieces   == 5

PlanPieces ==
    { <<PLAN_OPEN>>, <<PLAN_CLOSE>>, <<"\n">>, <<" ">>, <<"a">>, <<"-">>,
      <<"1", ".", " ">>, <<"b", "\n">> }

\* A file block body: the markers of `order` ("O", "S", "M") in that order,
\* the ORIGINAL marker followed by the fragment o, the separator by m.
RECURSIVE Body(_, _, _)
Body(order, o, m) ==
    IF order = <<>> THEN <<>>
    ELSE (CASE Head(order) = "O" -> <<ORIGINAL>> \o o
            [] Head(order) = "S" -> <<SEPARATOR>> \o m
            [] Head(order) = "M" -> <<MODIFIED>>)
         \o Body(Tail(order), o, m)

FragmentPairs ==
    { <<<<"\n", "x", " ", "\n">>, <<"\n", "y", "y", "\n">>>>,  \* trimmed
      <<<<"x">>, <<"x">>>>,                         \* identical fragments
      <<<<"z">>, <<"y">>>>,                         \* fragment not in the file
      <<<<>>, <<"y">>>>,                            \* empty ORIGINAL
      <<<<"x", "x">>, <<>>>> }                      \* overlapping, empty MODIFIED

MalformedOrders ==
    { <<"S", "M">>, <<"O", "M">>, <<"O", "S">>,     \* one marker missing
      <<"S", "O", "S", "M">>,                       \* separator first
      <<"O", "M", "S", "M">> }                      \* MODIFIED before separator

\* Single symbols that may stand before, between or after the blocks.
FileSymbols ==
    { <<FILE_TAG_A>>, <<FILE_CLOSE>>, <<SEPARATOR>>, <<"x">>,
      <<PLAN_OPEN>>, <<PLAN_CLOSE>> }

\* Whole blocks: well-formed ones for a.rs with each pair of fragments,
\* malformed ones for a.rs, and a well-formed one for b.rs.
FileBlocks ==
    { <<FILE_TAG_A>> \o Body(<<"O", "S", "M">>, f[1], f[2]) \o <<FILE_CLOSE>> :
        f \in FragmentPairs }
    \cup { <<FILE_TAG_A>> \o Body(ord, <<"x">>, <<"y">>) \o <<FILE_CLOSE>> :
             ord \in MalformedOrders }
    \cup { <<FILE_TAG_B>> \o Body(<<"O", "S", "M">>, <<"y">>, <<"x">>) \o <<FILE_CLOSE>> }

NewPieces ==
    { <<NEW_TAG_A>>, <<NEW_TAG_N>>, <<NEW_TAG_UP>>, <<NEW_FILE_CLOSE>>,
      <<"x">>, <<"\n">> }

InitParse(disks) ==
    /\ response = <<>>
    /\ fs \in disks
    /\ changes = EmptyChangeSet
    /\ fragments = <<>>
    /\ pc = "input"
    /\ typed = [pieces |-> 0, blocks |-> 0]
    /\ frontend = "agent"
    /\ mode = "Plan"
    /\ dry_run = TRUE
    /\ log = <<>>
    /\ cursor = 0
    /\ attempt = 0
    /\ delays = <<>>
    /\ shown = <<>>
    /\ event = "none"
    /\ NoIndexing
    /\ NoStore
    /\ NoChat

InitPlan == InitParse({(PathA :> File(<<"x">>))})
InitFile == InitParse(ParseDisks)
InitNew  == InitParse({(PathA :> File(<<"x">>)), (PathA :> NoFile)})

\* The model's reply grows by one piece.
Type(pieces, counter, max) ==
    /\ pc = "input"
    /\ typed[counter] < max
    /\ \E p \in pieces : response' = response \o p
    /\ typed' = [typed EXCEPT ![counter] = @ + 1]
    /\ UNCHANGED <<fs, changes, fragments, pc>>
    /\ UNCHANGED policyVars
    /\ UNCHANGED indexVars
    /\ UNCHANGED storeVars
    /\ UNCHANGED chatVars

TypePlan       == Type(PlanPieces, "pieces", MaxPlanPieces)
TypeFileSymbol == Type(FileSymbols, "pieces", MaxFileSymbols)
TypeFileBlock  == Type(FileBlocks, "blocks", MaxFileBlocks)
TypeNew        == Type(NewPieces, "pieces", MaxNewPieces)

\* let changes = parse_ai_response(&response, &cwd)
Parse ==
    /\ pc = "input"
    /\ changes' = parse_ai_response(response, base_path, fs)
    /\ fragments' = IF ExtractPlan(response).panicked THEN <<>>
                    ELSE ScannedFragments(response, TagPositions(response, FileTags, 1))
    /\ pc' = "parsed"
    /\ UNCHANGED <<response, fs, typed>>
    /\ UNCHANGED policyVars
    /\ UNCHANGED indexVars
    /\ UNCHANGED storeVars
    /\ UNCHANGED chatVars

NextPlan == TypePlan \/ Parse
NextFile == TypeFileSymbol \/ TypeFileBlock \/ Parse
NextNew  == TypeNew \/ Parse

SpecPlan == InitPlan /\ [][NextPlan]_vars
SpecFile == InitFile /\ [][NextFile]_vars
SpecNew  == InitNew /\ [][NextNew]_vars

\* --------------------------------------------- the three front ends
\* Agent::run (agent.rs), ChatSession::start (chat.rs) and
\* TuiRunner::send_message_internal (tui/runner.rs) receive a reply, parse
\* it and decide from the mode whether its items are applied.

\* tools::parse_tool_calls finds this block; it names write_file for a.rs.
TOOL_WRITE == "<tool_call>write_file a.rs</tool_call>"
CONTINUE   == "[CONTINUE]"
TERMINE    == "[TERMINE]"

PathN == Join(base_path, CapturedPath(NEW_TAG_N))

\* The parts a reply is assembled from: a block for a.rs and one for b.rs,
\* a new file sub/n.rs, a tool call, the two markers of the tui's Auto
\* mode and a closing plan tag that stands before the opening one.
ReplyBlocks ==
    { <<FILE_TAG_A, ORIGINAL, "x", SEPARATOR, "y", "y", MODIFIED, FILE_CLOSE>>,
      <<FILE_TAG_B, ORIGINAL, "y", SEPARATOR, "x", MODIFIED, FILE_CLOSE>>,
      <<NEW_TAG_N, "x", NEW_FILE_CLOSE>>,
      <<TOOL_WRITE>>, <<CONTINUE>>, <<TERMINE>>, <<PLAN_CLOSE, PLAN_OPEN>> }

MaxReplyBlocks == 2

RECURSIVE Replies(_)
Replies(n) ==
    IF n = 0 THEN {<<>>}
    ELSE Replies(n - 1) \cup {r \o b : r \in Replies(n - 1), b \in ReplyBlocks}

ReadOnly(content) == [kind |-> "readonly", content |-> content]

\* The disks of a session: every target writable, or a.rs read-only, or
\* sub/n.rs present and read-only.
SessionDisks ==
    { (PathA :> a) @@ (PathB :> File(<<"y">>)) @@ (PathN :> n) :
        <<a, n>> \in { <<File(<<"x", "y", "x">>), NoFile>>,
                       <<ReadOnly(<<"x", "y", "x">>), NoFile>>,
                       <<File(<<"x", "y", "x">>), ReadOnly(<<>>)>> } }

\* AgentConfig::from_cli: plan is always a dry run, interactive never is,
\* auto takes the --dry-run flag, which the other subcommands do not have.
from_cli(command, dry_run_flag) ==
    CASE command = "plan"        -> [mode |-> "Plan", dry_run |-> TRUE]
      [] command = "interactive" -> [mode |-> "Interactive", dry_run |-> FALSE]
      [] command = "auto"        -> [mode |-> "Auto", dry_run |-> dry_run_flag]

\* The configurations the command line can build.
AgentConfigs ==
    { from_cli("plan", FALSE), from_cli("interactive", FALSE),
      from_cli("auto", FALSE), from_cli("auto", TRUE) }

ChatModes == {"Ask", "Plan", "Code", "Auto"}

\* as NextMode, with the Plan arm missing: Ask leads to Code
NextModeSkipsPlan(m) ==
    CASE m = "Ask"  -> "Code"
      [] m = "Plan" -> "Code"
      [] m = "Code" -> "Auto"
      [] m = "Auto" -> "Ask"

\* ChatMode::next and App::cycle_mode
NextMode(m) ==
    CASE m = "Ask"  -> "Plan"
      [] m = "Plan" -> "Code"
      [] m = "Code" -> "Auto"
      [] m = "Auto" -> "Ask"

\* The items of a ChangeSet in the order the apply loops visit them:
\* the modifications, then the new files.
Items(cs) ==
    [n \in 1..Len(cs.modifications) |->
        [kind |-> "mod", path |-> cs.modifications[n].path,
         content |-> cs.modifications[n].modified]]
    \o [n \in 1..Len(cs.new_files) |->
        [kind |-> "new", path |-> cs.new_files[n].path,
         content |-> cs.new_files[n].content]]

\* One entry of the log: a confirmation asked (item 0 is the ChangeSet as a
\* whole; ok is the answer) or an apply() call (ok is its result).
Event(ev, item, ok) == [ev |-> ev, item |-> item, ok |-> ok]

\* as AgentDispatch, without the test of dry_run
AgentDispatchIgnoringDryRun(m, dry, cs) ==
    IF cs.panicked THEN "crashed"
    ELSE IF m = "Plan" THEN "done"
    ELSE IF is_empty(cs) THEN "done"
    ELSE IF m = "Auto" THEN "apply"
    ELSE "confirm"

\* Where Agent::run goes after parse_ai_response (agent.rs:118-149).
AgentDispatch(m, dry, cs) ==
    IF cs.panicked THEN "crashed"
    ELSE IF m = "Plan" THEN "done"
    ELSE IF is_empty(cs) THEN "done"
    ELSE IF dry THEN "done"
    ELSE IF m = "Auto" THEN "apply"
    ELSE "confirm"

\* as ReplDispatch, with the Plan arm applying like the Auto arm
ReplDispatchPlanApplies(m, cs) ==
    IF cs.panicked THEN "crashed"
    ELSE IF ~is_empty(cs) /\ m # "Ask"
         THEN CASE m = "Plan" -> "apply"
                [] m = "Code" -> "confirm"
                [] m = "Auto" -> "apply"
         ELSE "replied"

\* Where ChatSession::start goes after parse_ai_response (chat.rs:360-386).
ReplDispatch(m, cs) ==
    IF cs.panicked THEN "crashed"
    ELSE IF ~is_empty(cs) /\ m # "Ask"
         THEN CASE m = "Plan" -> "replied"
                [] m = "Code" -> "confirm"
                [] m = "Auto" -> "apply"
         ELSE "replied"

\* Where send_message_internal goes after parse_ai_response
\* (runner.rs:1398-1410): only Auto applies.
TuiDispatch(m, cs) ==
    IF cs.panicked THEN "crashed"
    ELSE IF ~is_empty(cs) /\ m # "Ask" /\ m = "Auto" THEN "apply"
    ELSE "replied"

Contains(r, sym) == \E i \in 1..Len(r) : r[i] = sym

\* !tools::parse_tool_calls(&response).is_empty()
HasToolCalls(r) == Contains(r, TOOL_WRITE)

\* The end of one iteration of the tui loop (runner.rs:1429-1445): in Auto
\* a reply holding [CONTINUE] and no [TERMINE] starts another request.
TuiAfterReply(m, r) ==
    IF m = "Auto" /\ ~Contains(r, TERMINE) /\ Contains(r, CONTINUE)
    THEN "request" ELSE "idle"

\* for attempt in 0..4
MaxAttempts == 4

\* Seconds slept before the attempt numbered n (0-based, n > 0):
\* Duration::from_secs(1 << (attempt - 1))
BackoffLinear(n) == n

Backoff(n) == 2 ^ (n - 1)

\* as AfterTransportError, with the tui starting its loop over
AfterTransportErrorLoops(fe) ==
    IF fe = "agent" THEN "failed" ELSE IF fe = "tui" THEN "request" ELSE "idle"

\* Where a front end goes once the transport call has failed for good: the
\* agent returns the error (agent.rs:114), the repl prints it and prompts
\* again (chat.rs:398-403), the tui shows it and breaks (runner.rs:1447-1451).
AfterTransportError(fe) == IF fe = "agent" THEN "failed" ELSE "idle"

\* What the repl prints on a reply (chat.rs:362-386) and what Agent::run
\* displays (agent.rs:122-133).
ShownOnReply(fe, m, cs) ==
    IF cs.panicked THEN <<>>
    ELSE IF fe = "repl"
         THEN IF ~is_empty(cs) /\ m # "Ask" THEN <<"changes">> ELSE <<"text">>
         ELSE IF m # "Plan" /\ ~is_empty(cs) THEN <<"changes">> ELSE <<>>

\* The tui adds the reply to the conversation once the ChangeSet is dealt
\* with (runner.rs:1412).
ShownOnReplied(fe, next, sh) ==
    IF fe = "tui" /\ next = "replied" THEN Append(sh, "text") ELSE sh

InitSession ==
    /\ response = <<>>
    /\ fs \in SessionDisks
    /\ changes = EmptyChangeSet
    /\ fragments = <<>>
    /\ typed = [pieces |-> 0, blocks |-> 0]
    /\ frontend \in {"agent", "repl", "tui"}
    /\ IF frontend = "agent"
       THEN /\ \E c \in AgentConfigs : mode = c.mode /\ dry_run = c.dry_run
            /\ pc = "start"
       ELSE /\ mode = "Code"
            /\ dry_run = FALSE
            /\ pc = "idle"
    /\ log = <<>>
    /\ cursor = 0
    /\ attempt = 0
    /\ delays = <<>>
    /\ shown = <<>>
    /\ event = "none"
    /\ NoIndexing
    /\ NoStore
    /\ NoChat

\* Shift+Tab (chat.rs:418-421, runner.rs:288-293)
CycleMode ==
    /\ frontend \in {"repl", "tui"} /\ pc = "idle"
    /\ mode' = NextMode(mode)
    /\ event' = "cycle"
    /\ UNCHANGED <<response, fs, changes, fragments, pc, typed, frontend,
                   dry_run, log, cursor, attempt, delays, shown>>
    /\ UNCHANGED indexVars
    /\ UNCHANGED storeVars
    /\ UNCHANGED chatVars

\* /ask, /plan, /code, /auto (chat.rs:315-318, runner.rs:418-421)
SetMode ==
    /\ frontend \in {"repl", "tui"} /\ pc = "idle"
    /\ \E m \in ChatModes : mode' = m /\ event' = m
    /\ UNCHANGED <<response, fs, changes, fragments, pc, typed, frontend,
                   dry_run, log, cursor, attempt, delays, shown>>
    /\ UNCHANGED indexVars
    /\ UNCHANGED storeVars
    /\ UNCHANGED chatVars

\* The agent has its index (agent.rs:84-114), or the user sends a message
\* (chat.rs:350, runner.rs:299-312): a request to the model is issued.
Send ==
    /\ \/ frontend = "agent" /\ pc = "ready"
       \/ frontend \in {"repl", "tui"} /\ pc = "idle"
    /\ pc' = "request"
    /\ attempt' = 0
    /\ delays' = <<>>
    /\ shown' = <<>>
    /\ event' = "send"
    /\ UNCHANGED <<response, fs, changes, fragments, typed, frontend, mode,
                   dry_run, log, cursor>>
    /\ UNCHANGED indexVars
    /\ UNCHANGED storeVars
    /\ UNCHANGED chatVars

\* client.chat fails.  The tui sleeps and tries again until MaxAttempts
\* attempts are made (runner.rs:1301-1318); then, and at once in the agent
\* and the repl, the error is surfaced.
TransportFails ==
    /\ pc = "request"
    /\ IF frontend = "tui" /\ attempt + 1 < MaxAttempts
       THEN /\ attempt' = attempt + 1
            /\ delays' = Append(delays, Backoff(attempt + 1))
            /\ pc' = "request"
            /\ shown' = shown
            /\ event' = "retry"
       ELSE /\ attempt' = 0
            /\ delays' = delays
            /\ pc' = AfterTransportError(frontend)
            /\ shown' = Append(shown, "error")
            /\ event' = "fail"
    /\ UNCHANGED <<response, fs, changes, fragments, typed, frontend, mode,
                   dry_run, log, cursor>>
    /\ UNCHANGED indexVars
    /\ UNCHANGED storeVars
    /\ UNCHANGED chatVars

\* client.chat returns a reply to the agent or the repl, which parse it.
Receive ==
    /\ pc = "request" /\ frontend \in {"agent", "repl"}
    /\ \E r \in Replies(MaxReplyBlocks) :
         LET cs == parse_ai_response(r, base_path, fs) IN
         /\ response' = r
         /\ changes' = cs
         /\ pc' = IF frontend = "agent" THEN AgentDispatch(mode, dry_run, cs)
                  ELSE ReplDispatch(mode, cs)
         /\ shown' = ShownOnReply(frontend, mode, cs)
    /\ cursor' = 1
    /\ log' = <<>>
    /\ event' = "reply"
    /\ UNCHANGED <<fs, fragments, typed, frontend, mode, dry_run, attempt,
                   delays>>
    /\ UNCHANGED indexVars
    /\ UNCHANGED storeVars
    /\ UNCHANGED chatVars

\* client.chat returns a reply to the tui (runner.rs:1320-1411).  A reply
\* with tool calls has them executed whatever the mode and, as they produce
\* results, the loop goes on with another request without parsing the
\* reply; any other reply is parsed.
TuiReceive ==
    /\ pc = "request" /\ frontend = "tui"
    /\ \E r \in Replies(MaxReplyBlocks) :
         IF HasToolCalls(r)
         THEN /\ fs' = Write(fs, PathA, <<"t">>)
              /\ pc' = "request"
              /\ shown' = <<>>
              /\ delays' = <<>>
              /\ event' = "tool"
              /\ UNCHANGED <<response, changes>>
         ELSE LET cs == parse_ai_response(r, base_path, fs) IN
              /\ response' = r
              /\ changes' = cs
              /\ pc' = TuiDispatch(mode, cs)
              /\ shown' = ShownOnReplied(frontend, TuiDispatch(mode, cs), <<>>)
              /\ delays' = delays
              /\ event' = "reply"
              /\ fs' = fs
    /\ cursor' = 1
    /\ log' = <<>>
    /\ attempt' = 0
    /\ UNCHANGED <<fragments, typed, frontend, mode, dry_run>>
    /\ UNCHANGED indexVars
    /\ UNCHANGED storeVars
    /\ UNCHANGED chatVars

\* The reply is pushed to the history and the iteration ends
\* (chat.rs:388-403, runner.rs:1412-1445): the repl prompts again; the tui
\* leaves its loop or, in Auto after [CONTINUE], issues the next request.
Replied ==
    /\ pc = "replied"
    /\ pc' = IF frontend = "tui" THEN TuiAfterReply(mode, response) ELSE "idle"
    /\ response' = <<>>
    /\ changes' = EmptyChangeSet
    /\ log' = <<>>
    /\ cursor' = 0
    /\ delays' = <<>>
    /\ shown' = <<>>
    /\ event' = "end"
    /\ UNCHANGED <<fs, fragments, typed, frontend, mode, dry_run, attempt>>
    /\ UNCHANGED indexVars
    /\ UNCHANGED storeVars
    /\ UNCHANGED chatVars

\* Where the loops go once the item at `cursor` is dealt with.
AfterItem ==
    IF cursor < Len(Items(changes))
    THEN IF frontend = "agent" /\ mode = "Interactive" THEN "confirm" ELSE "apply"
    ELSE IF frontend = "agent" THEN "done" ELSE "replied"

\* differ::confirm returns the user's answer.  The agent asks once per item
\* (agent.rs:176, 186), the repl once for the ChangeSet (chat.rs:372).
Confirm ==
    /\ pc = "confirm"
    /\ \E answer \in BOOLEAN :
         IF frontend = "agent"
         THEN /\ log' = Append(log, Event("confirm", cursor, answer))
              /\ pc' = IF answer THEN "apply" ELSE AfterItem
              /\ cursor' = IF ~answer /\ cursor < Len(Items(changes))
                           THEN cursor + 1 ELSE cursor
         ELSE /\ log' = Append(log, Event("confirm", 0, answer))
              /\ pc' = IF answer THEN "apply" ELSE "replied"
              /\ cursor' = cursor
    /\ event' = "confirm"
    /\ UNCHANGED <<response, fs, changes, fragments, typed, frontend, mode,
                   dry_run, attempt, delays, shown>>
    /\ UNCHANGED indexVars
    /\ UNCHANGED storeVars
    /\ UNCHANGED chatVars

\* What a failed apply() puts out: the agent's error reaches main, which
\* prints it (agent.rs:158, main.rs:65-66), the repl prints it next to the
\* item (chat.rs:464-473), the tui drops it (runner.rs:1404, 1407).
ShownOnApply(fe, ok, sh) ==
    IF ~ok /\ fe # "tui" THEN Append(sh, "error") ELSE sh

\* FileChange::apply / NewFile::apply of the item at `cursor`.  The agent
\* returns at the first error (`?`, agent.rs:158, 163, 177, 187); the repl
\* prints it and the tui ignores it, and both go on.
Apply ==
    /\ pc = "apply"
    /\ LET item == Items(changes)[cursor]
           ok   == Writable(fs, item.path)
           next == IF frontend = "agent" /\ ~ok THEN "failed" ELSE AfterItem
       IN /\ fs' = Write(fs, item.path, item.content)
          /\ log' = Append(log, Event("apply", cursor, ok))
          /\ pc' = next
          /\ cursor' = IF next # "failed" /\ cursor < Len(Items(changes))
                       THEN cursor + 1 ELSE cursor
          /\ shown' = ShownOnReplied(frontend, next,
                                     ShownOnApply(frontend, ok, shown))
    /\ event' = "apply"
    /\ UNCHANGED <<response, changes, fragments, typed, frontend, mode,
                   dry_run, attempt, delays>>
    /\ UNCHANGED indexVars
    /\ UNCHANGED storeVars
    /\ UNCHANGED chatVars

\* ------------------------------------------------------------ indexer
\* CodebaseIndex::index and CodebaseIndex::build_context (indexer.rs).
\* A text of the indexer is a sequence of pieces; a piece stands for a
\* literal run of bytes and carries its length, so that a file of 100,000
\* bytes is one piece.

Piece(sym, n) == [sym |-> sym, n |-> n]

\* str::len, in bytes
RECURSIVE ByteLen(_)
ByteLen(text) ==
    IF text = <<>> THEN 0 ELSE Head(text).n + ByteLen(Tail(text))

SLASH == Piece("/", 1)
DOT   == Piece(".", 1)

\* str::to_lowercase of the pieces that extensions are made of
ToLower(piece) ==
    CASE piece.sym = "RS"  -> Piece("rs", 2)
      [] piece.sym = "TXT" -> Piece("txt", 3)
      [] OTHER -> piece

\* const DEFAULT_EXTENSIONS
DEFAULT_EXTENSIONS ==
    { "rs", "ts", "tsx", "js", "jsx", "py", "go", "java", "kt", "swift",
      "c", "cpp", "h", "hpp", "cs", "rb", "php", "vue", "svelte",
      "html", "css", "scss", "sass", "less", "json", "yaml", "yml",
      "toml", "md", "sql", "sh", "bash", "zsh", "fish" }

\* const MAX_FILE_SIZE
MAX_FILE_SIZE == 100000

\* let default_excludes
DefaultExcludes ==
    << <<Piece("node_modules", 12)>>, <<Piece("target", 6)>>,
       <<Piece("dist", 4)>>, <<Piece("build", 5)>>, <<Piece(".git", 4)>>,
       <<Piece("__pycache__", 11)>>, <<Piece("vendor", 6)>>,
       <<Piece(".venv", 5)>>, <<Piece("venv", 4)>>, <<Piece(".idea", 5)>>,
       <<Piece(".vscode", 7)>>, <<Piece("coverage", 8)>> >>

\* str::contains: the pattern occurs as a run of consecutive pieces; the
\* empty pattern occurs in every text.
StrContains(text, pat) ==
    \E i \in 0..(Len(text) - Len(pat)) :
        \A k \in 1..Len(pat) : text[i + k] = pat[k]

\* as Excluded, with a token matched against whole path components only
ExcludedByComponent(path, excludes) ==
    \E e \in 1..Len(excludes) :
        \E i \in 0..(Len(path) - Len(excludes[e])) :
            /\ \A k \in 1..Len(excludes[e]) : path[i + k] = excludes[e][k]
            /\ i = 0 \/ path[i] = SLASH
            /\ i + Len(excludes[e]) = Len(path)
                  \/ path[i + Len(excludes[e]) + 1] = SLASH

\* all_excludes.iter().any(|exc| path_str.contains(exc.as_str()))
Excluded(path, excludes) ==
    \E e \in 1..Len(excludes) : StrContains(path, excludes[e])

\* The position of the last piece of the text equal to the given one, 0 if
\* there is none.
LastIndexOf(text, piece) ==
    IF \E i \in 1..Len(text) : text[i] = piece
    THEN CHOOSE i \in 1..Len(text) :
            /\ text[i] = piece
            /\ \A j \in (i + 1)..Len(text) : text[j] # piece
    ELSE 0

\* Path::file_name
FileName(path) == SubSeq(path, LastIndexOf(path, SLASH) + 1, Len(path))

\* path.extension().and_then(|e| e.to_str()).unwrap_or("").to_lowercase():
\* what follows the last dot of the file name, unless the name has no dot
\* or only a leading one; an extension is a single piece here.
Extension(path) ==
    LET name == FileName(path)
        dot  == LastIndexOf(name, DOT)
    IN IF dot <= 1 \/ dot = Len(name) THEN ""
       ELSE ToLower(name[Len(name)]).sym

\* exts.iter().any(|e| e.to_lowercase() == ext), or the default list
ShouldInclude(ext, cfg) ==
    IF cfg.has_include
    THEN \E k \in 1..Len(cfg.include_extensions) :
            ToLower(cfg.include_extensions[k]).sym = ext
    ELSE ext \in DEFAULT_EXTENSIONS

\* The canonicalized root of the walk.
Root == <<SLASH, Piece("proj", 4)>>

\* path.strip_prefix(&root).unwrap_or(path)
RelativePath(path) ==
    IF /\ Len(path) > Len(Root) + 1
       /\ SubSeq(path, 1, Len(Root)) = Root
       /\ path[Len(Root) + 1] = SLASH
    THEN SubSeq(path, Len(Root) + 2, Len(path))
    ELSE path

\* One entry of the walk: its path, whether fs::metadata succeeds and the
\* length it reports, whether fs::read_to_string succeeds and what it reads.
Entry(path, has_metadata, readable, content) ==
    [path |-> path, has_metadata |-> has_metadata, size |-> ByteLen(content),
     readable |-> readable, content |-> content]

InProject(rel) == Root \o <<SLASH>> \o rel

Xs(n) == <<Piece("x", n)>>

\* The files a walk can meet: src/a.rs of 12 bytes, an upper-case
\* extension, a path holding the default token "build" inside a component,
\* files of MAX_FILE_SIZE + 1 and of MAX_FILE_SIZE bytes, a file that is
\* not text, an extension outside the default list, a name without
\* extension, a file whose metadata cannot be read, and an empty file.
SRC == Piece("src", 3)
RS  == Piece("rs", 2)

A_RS      == Entry(InProject(<<SRC, SLASH, Piece("a", 1), DOT, RS>>),
                   TRUE, TRUE, <<Piece("fn main() {}", 12)>>)
B_RS      == Entry(InProject(<<SRC, SLASH, Piece("B", 1), DOT, Piece("RS", 2)>>),
                   TRUE, TRUE, Xs(5))
C_RS      == Entry(InProject(<<Piece("my", 2), Piece("build", 5), Piece("s", 1),
                               SLASH, Piece("c", 1), DOT, RS>>),
                   TRUE, TRUE, Xs(3))
BIG_RS    == Entry(InProject(<<Piece("big", 3), DOT, RS>>),
                   TRUE, TRUE, Xs(MAX_FILE_SIZE + 1))
MAX_RS    == Entry(InProject(<<Piece("max", 3), DOT, RS>>),
                   TRUE, TRUE, Xs(MAX_FILE_SIZE))
BIN_RS    == Entry(InProject(<<Piece("bin", 3), DOT, RS>>),
                   TRUE, FALSE, Xs(8))
NOTES_TXT == Entry(InProject(<<Piece("notes", 5), DOT, Piece("txt", 3)>>),
                   TRUE, TRUE, Xs(7))
MAKEFILE  == Entry(InProject(<<Piece("Makefile", 8)>>),
                   TRUE, TRUE, Xs(4))
GONE_RS   == Entry(InProject(<<Piece("gone", 4), DOT, RS>>),
                   FALSE, FALSE, <<>>)
EMPTY_RS  == Entry(InProject(<<Piece("e", 1), DOT, RS>>),
                   TRUE, TRUE, <<>>)

WalkEntries ==
    { A_RS, B_RS, C_RS, BIG_RS, MAX_RS, BIN_RS, NOTES_TXT, MAKEFILE, GONE_RS,
      EMPTY_RS }

MaxEntries == 3

IndexConfig(has_include, include_extensions, exclude_dirs, max_files) ==
    [has_include |-> has_include, include_extensions |-> include_extensions,
     exclude_dirs |-> exclude_dirs, max_files |-> max_files]

\* The arguments index() is called with: the defaults (--max-files 50), a
\* limit of one file and of none, --exclude src, --exclude "" and
\* --include TXT,rs.
IndexConfigs ==
    { IndexConfig(FALSE, <<>>, <<>>, 50),
      IndexConfig(FALSE, <<>>, <<>>, 1),
      IndexConfig(FALSE, <<>>, <<>>, 0),
      IndexConfig(FALSE, <<>>, <<<<SRC>>>>, 50),
      IndexConfig(FALSE, <<>>, <<<<>>>>, 50),
      IndexConfig(TRUE, <<Piece("TXT", 3), RS>>, <<>>, 50) }

IndexedFile(entry) ==
    [path |-> entry.path, relative_path |-> RelativePath(entry.path),
     content |-> entry.content, extension |-> Extension(entry.path),
     size |-> entry.size]

\* as TokenEstimate, rounding up
TokenEstimateCeil(content) == (ByteLen(content) + 3) \div 4

\* let token_estimate = content.len() / 4
TokenEstimate(content) == ByteLen(content) \div 4

\* Whether the loop of index() pushes the entry (indexer.rs:90-126).
Eligible(entry, cfg) ==
    /\ ~Excluded(entry.path, DefaultExcludes \o cfg.exclude_dirs)
    /\ ShouldInclude(Extension(entry.path), cfg)
    /\ entry.has_metadata
    /\ entry.size <= MAX_FILE_SIZE
    /\ entry.readable

\* as CapReached, stopping one file later
CapReachedLate(file_count, max_files) == file_count > max_files

\* if file_count >= max_files { break; }
CapReached(file_count, max_files) == file_count >= max_files

\* The loop of index() from entry i on (indexer.rs:83-147).
RECURSIVE IndexFrom(_, _, _, _, _)
IndexFrom(ents, i, file_count, acc, cfg) ==
    IF i > Len(ents) \/ CapReached(file_count, cfg.max_files) THEN acc
    ELSE IF ~Eligible(ents[i], cfg)
         THEN IndexFrom(ents, i + 1, file_count, acc, cfg)
         ELSE IndexFrom(ents, i + 1, file_count + 1,
                  [files |-> Append(acc.files, IndexedFile(ents[i])),
                   total_tokens_estimate |->
                       acc.total_tokens_estimate + TokenEstimate(ents[i].content)],
                  cfg)

\* CodebaseIndex::index
Index(ents, cfg) == IndexFrom(ents, 1, 0, EmptyIndex, cfg)

\* format!("\n--- {} ---\n", file.relative_path)
FileHeader(file) ==
    <<Piece("\n--- ", 5)>> \o file.relative_path \o <<Piece(" ---\n", 5)>>

\* let file_tokens = (file_header.len() + file.content.len()) / 4
FileTokens(file) == (ByteLen(FileHeader(file)) + ByteLen(file.content)) \div 4

\* as MustFlush, looking at the tokens gathered so far only
MustFlushLate(current_tokens, file_tokens, max_tokens, current_chunk) ==
    current_tokens > max_tokens /\ current_chunk # <<>>

\* current_tokens + file_tokens > max_tokens && !current_chunk.is_empty()
MustFlush(current_tokens, file_tokens, max_tokens, current_chunk) ==
    current_tokens + file_tokens > max_tokens /\ current_chunk # <<>>

\* as FinalFlush, with the last chunk left behind
FinalFlushDropped(chunks, current_chunk) == chunks

\* if !current_chunk.is_empty() { chunks.push(current_chunk) }
FinalFlush(chunks, current_chunk) ==
    IF current_chunk # <<>> THEN Append(chunks, current_chunk) ELSE chunks

\* The loop of build_context from file i on (indexer.rs:183-196).
RECURSIVE ChunksFrom(_, _, _, _, _, _)
ChunksFrom(files, i, chunks, current_chunk, current_tokens, max_tokens) ==
    IF i > Len(files) THEN FinalFlush(chunks, current_chunk)
    ELSE LET file_header == FileHeader(files[i])
             file_tokens == FileTokens(files[i])
             flush == MustFlush(current_tokens, file_tokens, max_tokens,
                                current_chunk)
         IN ChunksFrom(files, i + 1,
                IF flush THEN Append(chunks, current_chunk) ELSE chunks,
                (IF flush THEN <<>> ELSE current_chunk)
                    \o file_header \o files[i].content,
                (IF flush THEN 0 ELSE current_tokens) + file_tokens,
                max_tokens)

\* CodebaseIndex::build_context
build_context(idx, max_tokens) ==
    ChunksFrom(idx.files, 1, <<>>, <<>>, 0, max_tokens)

\* The extensions of the files in the order they are first met.
RECURSIVE FirstSeen(_, _)
FirstSeen(files, seen) ==
    IF files = <<>> THEN seen
    ELSE FirstSeen(Tail(files),
                   IF \E k \in 1..Len(seen) : seen[k] = Head(files).extension
                   THEN seen ELSE Append(seen, Head(files).extension))

\* *by_ext.entry(&file.extension).or_insert(0) += 1, for every file
by_ext(files) ==
    [ext \in {files[i].extension : i \in 1..Len(files)} |->
        Cardinality({i \in 1..Len(files) : files[i].extension = ext})]

Reverse(seq) == [k \in 1..Len(seq) |-> seq[Len(seq) + 1 - k]]

Rotate(seq, n) == SubSeq(seq, n + 1, Len(seq)) \o SubSeq(seq, 1, n)

\* by_ext.iter(): a HashMap hands out its entries in an order of its own,
\* which differs from run to run.  The orders tried are the order of
\* insertion, begun at any key, forward and backward; for up to three
\* keys these are all the orders there are.
IterOrders(files) ==
    LET keys == FirstSeen(files, <<>>) IN
    IF keys = <<>> THEN {<<>>}
    ELSE {Rotate(keys, n) : n \in 0..(Len(keys) - 1)}
         \cup {Reverse(Rotate(keys, n)) : n \in 0..(Len(keys) - 1)}

\* as SortByCountDesc, with the order left as it is
SortSkipped(order, counts) == order

\* sorted.sort_by(|a, b| b.1.cmp(a.1)): a stable sort, the larger count
\* first; entries with equal counts stay in the order they came in.
RECURSIVE SortByCountDesc(_, _)
SortByCountDesc(order, counts) ==
    IF order = <<>> THEN <<>>
    ELSE LET i == CHOOSE k \in 1..Len(order) :
                    /\ \A j \in 1..Len(order) : counts[order[j]] <= counts[order[k]]
                    /\ \A j \in 1..(k - 1) : counts[order[j]] < counts[order[k]]
         IN <<order[i]>>
            \o SortByCountDesc(SubSeq(order, 1, i - 1)
                                   \o SubSeq(order, i + 1, Len(order)), counts)

\* .take(10)
SummaryTake == 10

Take(seq, n) == SubSeq(seq, 1, IF Len(seq) < n THEN Len(seq) ELSE n)

\* The lines that summary() puts under "Par type:" when the HashMap hands
\* out its entries in the given order.
summary(idx, order) ==
    LET sorted == Take(SortByCountDesc(order, by_ext(idx.files)), SummaryTake)
    IN [k \in 1..Len(sorted) |->
           [ext |-> sorted[k], count |-> by_ext(idx.files)[sorted[k]]]]

\* A project with files of eleven kinds, two of them Rust files.
Sample(name, ext) ==
    Entry(InProject(<<Piece(name, 1), DOT, ext>>), TRUE, TRUE, Xs(4))

LargeWalk ==
    << Sample("a", Piece("ts", 2)), Sample("b", RS), Sample("c", Piece("js", 2)),
       Sample("d", Piece("py", 2)), Sample("e", Piece("go", 2)),
       Sample("f", Piece("c", 1)), Sample("g", Piece("h", 1)),
       Sample("h", Piece("md", 2)), Sample("i", Piece("sh", 2)),
       Sample("j", Piece("css", 3)), Sample("k", Piece("sql", 3)),
       Sample("l", RS) >>

\* The limits build_context is called with: none at all, one that two
\* small files reach together, and those of the front ends.
TokenLimits == {0, 12, 20000, 30000}

InitIndex ==
    /\ response = <<>>
    /\ fs = (PathA :> NoFile)
    /\ changes = EmptyChangeSet
    /\ fragments = <<>>
    /\ pc = "walk"
    /\ typed = [pieces |-> 0, blocks |-> 0]
    /\ frontend = "agent"
    /\ mode = "Plan"
    /\ dry_run = TRUE
    /\ log = <<>>
    /\ cursor = 0
    /\ attempt = 0
    /\ delays = <<>>
    /\ shown = <<>>
    /\ event = "none"
    /\ NoIndexing
    /\ NoStore
    /\ NoChat

\* The walk yields one more file.
Walk ==
    /\ pc = "walk"
    /\ Len(entries) < MaxEntries
    /\ \E e \in WalkEntries :
         /\ \A k \in 1..Len(entries) : entries[k] # e
         /\ entries' = Append(entries, e)
    /\ UNCHANGED <<config, index, context>>
    /\ UNCHANGED parseVars
    /\ UNCHANGED policyVars
    /\ UNCHANGED storeVars
    /\ UNCHANGED chatVars

\* The walk yields the files of the large project.
WalkLargeProject ==
    /\ pc = "walk"
    /\ entries = <<>>
    /\ entries' = LargeWalk
    /\ UNCHANGED <<config, index, context>>
    /\ UNCHANGED parseVars
    /\ UNCHANGED policyVars
    /\ UNCHANGED storeVars
    /\ UNCHANGED chatVars

\* println!("{}", index.summary()) (agent.rs:78)
Summarize ==
    /\ pc = "indexed"
    /\ \E order \in IterOrders(index.files) :
         returned' = [op |-> "summary", result |-> summary(index, order)]
    /\ pc' = "summarized"
    /\ UNCHANGED <<db, calls>>
    /\ UNCHANGED chatVars
    /\ UNCHANGED indexVars
    /\ UNCHANGED <<response, fs, changes, fragments, typed>>
    /\ UNCHANGED policyVars

\* index() runs over the entries of the walk.
IndexCodebase ==
    /\ pc = "walk"
    /\ \E cfg \in IndexConfigs :
         /\ config' = cfg
         /\ index' = Index(entries, cfg)
    /\ pc' = "indexed"
    /\ UNCHANGED <<entries, context>>
    /\ UNCHANGED <<response, fs, changes, fragments, typed>>
    /\ UNCHANGED policyVars
    /\ UNCHANGED storeVars
    /\ UNCHANGED chatVars

\* build_context runs over the index.
BuildContext ==
    /\ pc = "indexed"
    /\ \E max_tokens \in TokenLimits :
         context' = [max_tokens |-> max_tokens,
                     chunks |-> build_context(index, max_tokens)]
    /\ pc' = "built"
    /\ UNCHANGED <<entries, config, index>>
    /\ UNCHANGED <<response, fs, changes, fragments, typed>>
    /\ UNCHANGED policyVars
    /\ UNCHANGED storeVars
    /\ UNCHANGED chatVars

NextIndex ==
    Walk \/ WalkLargeProject \/ IndexCodebase \/ Summarize \/ BuildContext

SpecIndex == InitIndex /\ [][NextIndex]_vars

\* ------------------------------------------- the agent's first phase
\* Agent::run indexes the project before it talks to the model
\* (agent.rs:61-82).

\* CodebaseIndex::index with its first step: root.canonicalize() fails for
\* a root that does not exist or cannot be reached.
IndexOrError(root_ok, ents, cfg) ==
    IF ~root_ok THEN [ok |-> FALSE, err |-> "Invalid path", index |-> EmptyIndex]
    ELSE [ok |-> TRUE, err |-> "", index |-> Index(ents, cfg)]

\* as AfterIndex, without the test for an empty index
AfterIndexAllowsEmpty(r) == IF ~r.ok THEN "failed" ELSE "ready"

\* Where Agent::run goes with the result of index(): `?` returns the
\* error (agent.rs:71-76), and an index without files is an error too
\* (agent.rs:80-82).
AfterIndex(r) ==
    IF ~r.ok THEN "failed"
    ELSE IF r.index.files = <<>> THEN "failed"
    ELSE "ready"

\* The projects the agent is started in: no file at all, one file that is
\* not source code, one source file.
AgentWalks == {<<>>, <<NOTES_TXT>>, <<A_RS>>}

\* Phase 1 of Agent::run; main prints the error it returns
\* (main.rs:65-68).
AgentIndex ==
    /\ frontend = "agent" /\ pc = "start"
    /\ \E root_ok \in BOOLEAN, ents \in AgentWalks :
         LET cfg == IndexConfig(FALSE, <<>>, <<>>, 50)
             r == IndexOrError(root_ok, ents, cfg)
         IN /\ entries' = IF root_ok THEN ents ELSE <<>>
            /\ config' = cfg
            /\ index' = r.index
            /\ returned' = [op |-> "index", root_ok |-> root_ok, ok |-> r.ok,
                            err |-> r.err]
            /\ pc' = AfterIndex(r)
            /\ shown' = IF AfterIndex(r) = "failed" THEN <<"error">> ELSE shown
    /\ event' = "index"
    /\ UNCHANGED <<response, fs, changes, fragments, typed, frontend, mode,
                   dry_run, log, cursor, attempt, delays, context, db, calls>>
    /\ UNCHANGED chatVars

NextSession ==
    \/ CycleMode \/ SetMode \/ AgentIndex \/ Send \/ TransportFails \/ Receive
    \/ TuiReceive \/ Replied \/ Confirm \/ Apply

SpecSession == InitSession /\ [][NextSession]_vars

\* The session with its steps taken as long as one is possible: a request
\* in flight is answered or fails, and a handler that can go on does.
FairSession == SpecSession /\ WF_vars(NextSession)

\* ------------------------------------------------------- change applier
\* FileChange::apply and NewFile::apply (differ.rs) on a disk that has
\* directories.  A node of kind "dir" is a directory, one of kind "rodir"
\* a directory in which nothing can be created; the root "/" is a
\* directory.  An io::Error is modelled by its kind.

Dir   == [kind |-> "dir", content |-> <<>>]
RoDir == [kind |-> "rodir", content |-> <<>>]

\* Path::parent
Parent(p) == SubSeq(p, 1, Len(p) - 1)

\* Path::is_dir
IsDir(disk, p) == p = <<"/">> \/ Lookup(disk, p).kind \in {"dir", "rodir"}

\* An Option is a sequence of at most one value.
None == <<>>
Some(x) == <<x>>

Ok(disk) == [ok |-> TRUE, e |-> "", disk |-> disk]
Err(e, disk) == [ok |-> FALSE, e |-> e, disk |-> disk]

\* The file system's walk along an absolute path, component by component
\* from position i on, `at` being the place reached: every component but
\* the last is looked up in a directory, ".." leads to the directory
\* above (to the root from the root), and the last component need not
\* exist.  The place reached has all ".." resolved.
RECURSIVE Walked(_, _, _, _)
Walked(disk, p, i, at) ==
    IF i > Len(p) THEN [ok |-> TRUE, e |-> "", path |-> at]
    ELSE IF ~IsDir(disk, at)
        THEN [ok |-> FALSE,
              e |-> IF Lookup(disk, at).kind = "missing"
                    THEN "NotFound" ELSE "NotADirectory",
              path |-> at]
    ELSE IF p[i] = ".."
        THEN Walked(disk, p, i + 1, IF at = <<"/">> THEN at ELSE Parent(at))
    ELSE Walked(disk, p, i + 1, at \o <<p[i]>>)

Real(disk, p) == Walked(disk, p, 2, <<"/">>)

\* Path::is_dir of a path that may hold ".."
IsDirAt(disk, p) == Real(disk, p).ok /\ IsDir(disk, Real(disk, p).path)

\* mkdir(2) on a place the walk has reached
Mkdir(disk, p) ==
    IF p = <<"/">> \/ Lookup(disk, p).kind # "missing"
        THEN Err("AlreadyExists", disk)
    ELSE IF ~IsDir(disk, Parent(p))
        THEN Err(IF Lookup(disk, Parent(p)).kind = "missing"
                 THEN "NotFound" ELSE "NotADirectory", disk)
    ELSE IF Lookup(disk, Parent(p)).kind = "rodir"
        THEN Err("PermissionDenied", disk)
    ELSE Ok((p :> Dir) @@ disk)

\* mkdir(2) as DirBuilder calls it
MkdirAt(disk, p) ==
    IF Real(disk, p).ok THEN Mkdir(disk, Real(disk, p).path)
    ELSE Err(Real(disk, p).e, disk)

\* fs::create_dir_all(parent): mkdir; on NotFound the ancestors, taken
\* from the path as it is written, are made first and mkdir is tried
\* again; any other failure is an error unless the path is a directory
\* already.
RECURSIVE create_dir_all(_, _)
create_dir_all(disk, p) ==
    LET first == MkdirAt(disk, p) IN
    IF first.ok THEN first
    ELSE IF first.e # "NotFound"
         THEN IF IsDirAt(disk, p) THEN Ok(disk) ELSE first
    ELSE LET above == create_dir_all(disk, Parent(p)) IN
         IF ~above.ok THEN above
         ELSE LET again == MkdirAt(above.disk, p) IN
              IF again.ok \/ ~IsDirAt(above.disk, p) THEN again
              ELSE Ok(above.disk)

\* fs::write on a place the walk has reached: the file is created or
\* truncated, then the whole of contents is written.
WriteAt(disk, p, content) ==
    IF IsDir(disk, p) THEN Err("IsADirectory", disk)
    ELSE IF ~IsDir(disk, Parent(p))
        THEN Err(IF Lookup(disk, Parent(p)).kind = "missing"
                 THEN "NotFound" ELSE "NotADirectory", disk)
    ELSE IF Lookup(disk, p).kind \in {"readonly", "locked"}
        THEN Err("PermissionDenied", disk)
    ELSE IF Lookup(disk, p).kind = "missing"
            /\ Lookup(disk, Parent(p)).kind = "rodir"
        THEN Err("PermissionDenied", disk)
    ELSE Ok((p :> [kind |-> "file", content |-> content]) @@ disk)

\* as fs_write, adding the bytes to what the file holds (OpenOptions::append)
fs_write_appending(disk, p, content) ==
    IF Lookup(disk, p).kind \in {"file", "missing"} /\ IsDir(disk, Parent(p))
    THEN Ok((p :> [kind |-> "file",
                   content |-> Lookup(disk, p).content \o content]) @@ disk)
    ELSE Err("PermissionDenied", disk)

\* fs::write(path, contents)
fs_write(disk, p, content) ==
    IF Real(disk, p).ok THEN WriteAt(disk, Real(disk, p).path, content)
    ELSE Err(Real(disk, p).e, disk)

\* format!("Failed to write {}: {}", self.path, e)
FailedToWrite(path, e) == <<"Failed to write ", path, ": ", e>>

\* format!("Failed to create directories: {}", e)
FailedToCreateDirectories(e) == <<"Failed to create directories: ", e>>

\* The Result of an apply() and the disk it leaves.
Applied(ok, err, disk) == [ok |-> ok, err |-> err, disk |-> disk]

\* as FileChangeApply, reading the file first and refusing to write over a
\* content that is not the original any more
FileChangeApplyIfUnchanged(disk, change) ==
    LET w == fs_write(disk, change.path, change.modified)
        r == Real(disk, change.path)
    IN
    IF r.ok /\ Lookup(disk, r.path).kind = "file"
            /\ Lookup(disk, r.path).content # change.original
    THEN Applied(FALSE, FailedToWrite(change.path, "changed on disk"), disk)
    ELSE IF w.ok THEN Applied(TRUE, <<>>, w.disk)
    ELSE Applied(FALSE, FailedToWrite(change.path, w.e), w.disk)

\* FileChange::apply
FileChangeApply(disk, change) ==
    LET w == fs_write(disk, change.path, change.modified) IN
    IF w.ok THEN Applied(TRUE, <<>>, w.disk)
    ELSE Applied(FALSE, FailedToWrite(change.path, w.e), w.disk)

\* as NewFileApply, without the `?` after create_dir_all
NewFileApplyIgnoringDirs(disk, new_file) ==
    LET d == create_dir_all(disk, Parent(new_file.path))
        w == fs_write(d.disk, new_file.path, new_file.content)
    IN IF w.ok THEN Applied(TRUE, <<>>, w.disk)
       ELSE Applied(FALSE, FailedToWrite(new_file.path, w.e), w.disk)

\* NewFile::apply; Path::parent is None for the root only.
NewFileApply(disk, new_file) ==
    LET d == IF new_file.path = <<"/">> THEN Ok(disk)
             ELSE create_dir_all(disk, Parent(new_file.path)) IN
    IF ~d.ok THEN Applied(FALSE, FailedToCreateDirectories(d.e), d.disk)
    ELSE LET w == fs_write(d.disk, new_file.path, new_file.content) IN
         IF w.ok THEN Applied(TRUE, <<>>, w.disk)
         ELSE Applied(FALSE, FailedToWrite(new_file.path, w.e), w.disk)

PathProj == base_path
PathSub  == base_path \o <<"sub">>
PathDeep == base_path \o <<"sub", "deep">>
PathM    == base_path \o <<"sub", "deep", "m.rs">>

\* The disks changes are applied to: the project directory, writable or
\* not; a.rs missing, a file, read-only, locked or a directory; sub
\* missing, or a file, or a directory, writable or not, in which n.rs is
\* missing, a file or read-only.
ApplyDisks ==
    { (PathProj :> proj) @@ (PathA :> a) @@ (PathSub :> sn[1])
          @@ (PathN :> sn[2]) :
        proj \in {Dir, RoDir},
        a \in {NoFile, File(<<"x", "y", "x">>), ReadOnly(<<"x">>), Locked, Dir},
        sn \in ({NoFile, File(<<"s">>)} \X {NoFile})
               \cup ({Dir, RoDir} \X {NoFile, File(<<"x">>), ReadOnly(<<"x">>)}) }

\* The changes a ChangeSet can hold for these disks.
ApplyModifications ==
    { FileChange(PathA, <<"x", "y", "x">>, <<"y", "y">>),
      FileChange(PathA, <<"x", "y", "x">>, <<>>),
      FileChange(PathN, <<>>, <<"z">>) }

ApplyNewFiles ==
    { NewFile(PathN, <<"x", "x">>), NewFile(PathA, <<"n">>),
      NewFile(PathM, <<"m">>), NewFile(PathSub, <<"s">>) }

\* The ChangeSets handed over: with or without a plan, at most one
\* modification, at most one new file or the two for sub/deep/m.rs and
\* a.rs, at most one deletion.
ApplyChangeSets ==
    { [panicked |-> FALSE, plan |-> plan, modifications |-> mods,
       new_files |-> news, deletions |-> dels] :
        plan \in {<<>>, <<<<"s">>>>},
        mods \in {<<>>} \cup {<<m>> : m \in ApplyModifications},
        news \in {<<>>} \cup {<<n>> : n \in ApplyNewFiles}
                 \cup {<<NewFile(PathM, <<"m">>), NewFile(PathA, <<"n">>)>>},
        dels \in {<<>>, <<PathA>>} }

MaxApplies == 2

InitApply ==
    /\ response = <<>>
    /\ fs \in ApplyDisks
    /\ changes \in ApplyChangeSets
    /\ fragments = <<>>
    /\ pc = "check"
    /\ typed = [pieces |-> 0, blocks |-> 0]
    /\ frontend = "agent"
    /\ mode = "Auto"
    /\ dry_run = FALSE
    /\ log = <<>>
    /\ cursor = 0
    /\ attempt = 0
    /\ delays = <<>>
    /\ shown = <<>>
    /\ event = "none"
    /\ NoIndexing
    /\ NoStore
    /\ NoChat

\* One call of apply(): the log keeps the item, the disk before and after
\* the call and what the call returned.
Record(kind, item, before, r) ==
    /\ fs' = r.disk
    /\ log' = Append(log, [kind |-> kind, item |-> item, before |-> before,
                           after |-> r.disk, ok |-> r.ok, err |-> r.err])
    /\ event' = "apply"
    /\ UNCHANGED <<response, changes, fragments, pc, typed>>
    /\ UNCHANGED <<frontend, mode, dry_run, cursor, attempt, delays, shown>>
    /\ UNCHANGED indexVars
    /\ UNCHANGED storeVars
    /\ UNCHANGED chatVars

\* if changes.is_empty() { ... return Ok(()) } (agent.rs:127-130)
CheckEmpty ==
    /\ pc = "check"
    /\ event' = IF is_empty(changes) THEN "empty" ELSE "changes"
    /\ pc' = IF is_empty(changes) THEN "done" ELSE "apply"
    /\ UNCHANGED <<response, fs, changes, fragments, typed>>
    /\ UNCHANGED <<frontend, mode, dry_run, log, cursor, attempt, delays,
                   shown>>
    /\ UNCHANGED indexVars
    /\ UNCHANGED storeVars
    /\ UNCHANGED chatVars

\* change.apply() for a modification of the ChangeSet
ApplyFileChange ==
    /\ pc = "apply" /\ Len(log) < MaxApplies
    /\ \E n \in 1..Len(changes.modifications) :
         Record("mod", changes.modifications[n], fs,
                FileChangeApply(fs, changes.modifications[n]))

\* new_file.apply() for a new file of the ChangeSet
ApplyNewFile ==
    /\ pc = "apply" /\ Len(log) < MaxApplies
    /\ \E n \in 1..Len(changes.new_files) :
         Record("new", changes.new_files[n], fs,
                NewFileApply(fs, changes.new_files[n]))

\* Another process writes to a file that a modification is about, while
\* the changes wait to be applied (the confirm prompts of
\* apply_changes_interactive, agent.rs:171-182, block on the terminal).
ExternalEdit ==
    /\ pc = "apply"
    /\ \E n \in 1..Len(changes.modifications) :
         LET path == changes.modifications[n].path IN
         /\ Lookup(fs, path).kind = "file"
         /\ Lookup(fs, path).content # <<"e">>
         /\ fs' = [fs EXCEPT ![path] = File(<<"e">>)]
    /\ event' = "edit"
    /\ UNCHANGED <<response, changes, fragments, pc, typed, log>>
    /\ UNCHANGED <<frontend, mode, dry_run, cursor, attempt, delays, shown>>
    /\ UNCHANGED indexVars
    /\ UNCHANGED storeVars
    /\ UNCHANGED chatVars

NextApply == CheckEmpty \/ ApplyFileChange \/ ApplyNewFile \/ ExternalEdit

SpecApply == InitApply /\ [][NextApply]_vars

\* ------------------------------------------------- a reply put to work
\* A reply is parsed against the disk and every change it holds is
\* applied, as the agent's auto mode (agent.rs:118-149, 154-169) and the
\* repl (chat.rs:366-376, 462-477) do it.

MaxPatchBlocks == 2

\* One call of apply() for item n of the ChangeSet, modifications first.
ApplyItem(disk, cs, n) ==
    IF n <= Len(cs.modifications)
    THEN [kind |-> "mod", item |-> cs.modifications[n],
          r |-> FileChangeApply(disk, cs.modifications[n])]
    ELSE [kind |-> "new", item |-> cs.new_files[n - Len(cs.modifications)],
          r |-> NewFileApply(disk, cs.new_files[n - Len(cs.modifications)])]

\* The reply holds up to MaxPatchBlocks blocks: two blocks for a.rs with
\* the fragments x and y, a block for b.rs, a block with an absolute path,
\* and new files for sub/n.rs, ../up.rs and a.rs.  a.rs holds "x y" or
\* "x y x", sub is missing or a directory, /etc/hosts is a file.
InitPatch ==
    LET blocks ==
            { <<FILE_TAG_A, ORIGINAL, "x", SEPARATOR, "z", MODIFIED, FILE_CLOSE>>,
              <<FILE_TAG_A, ORIGINAL, "y", SEPARATOR, "w", "w", MODIFIED, FILE_CLOSE>>,
              <<FILE_TAG_B, ORIGINAL, "y", SEPARATOR, "x", MODIFIED, FILE_CLOSE>>,
              <<FILE_TAG_ABS, ORIGINAL, "h", SEPARATOR, "g", MODIFIED, FILE_CLOSE>>,
              <<NEW_TAG_N, "n", NEW_FILE_CLOSE>>,
              <<NEW_TAG_UP, "u", NEW_FILE_CLOSE>>,
              <<NEW_TAG_A, "n", NEW_FILE_CLOSE>> }
        replies ==
            UNION { [1..n -> blocks] : n \in 0..MaxPatchBlocks }
        Flat(r) == IF Len(r) = 0 THEN <<>>
                   ELSE IF Len(r) = 1 THEN r[1]
                   ELSE IF Len(r) = 2 THEN r[1] \o r[2]
                   ELSE r[1] \o r[2] \o r[3]
        disks ==
            { (base_path :> Dir) @@ (PathA :> File(a)) @@ (PathB :> File(<<"y">>))
                  @@ (base_path \o <<"sub">> :> sub)
                  @@ (<<"/", "etc">> :> Dir)
                  @@ (<<"/", "etc", "hosts">> :> File(<<"h">>)) :
                a \in {<<"x", "y">>, <<"x", "y", "x">>}, sub \in {NoFile, Dir} }
    IN
    /\ \E r \in replies : response = Flat(r)
    /\ fs \in disks
    /\ changes = EmptyChangeSet
    /\ fragments = <<>>
    /\ pc = "input"
    /\ typed = [pieces |-> 0, blocks |-> 0]
    /\ frontend \in {"agent", "repl"}
    /\ mode = "Auto"
    /\ dry_run = FALSE
    /\ log = <<>>
    /\ cursor = 0
    /\ attempt = 0
    /\ delays = <<>>
    /\ shown = <<>>
    /\ event = "none"
    /\ NoIndexing
    /\ NoStore
    /\ NoChat

\* The loops of apply_all_changes and apply_changes, one item at a time:
\* the agent returns at the first error (`?`), the repl goes on.
PatchApply ==
    /\ pc = "parsed" /\ ~changes.panicked
    /\ cursor < Len(changes.modifications) + Len(changes.new_files)
    /\ LET a == ApplyItem(fs, changes, cursor + 1)
           last == cursor + 1
                     = Len(changes.modifications) + Len(changes.new_files)
       IN /\ fs' = a.r.disk
          /\ log' = Append(log, [kind |-> a.kind, item |-> a.item,
                                 before |-> fs, after |-> a.r.disk,
                                 ok |-> a.r.ok, err |-> a.r.err])
          /\ cursor' = cursor + 1
          /\ pc' = IF ~a.r.ok /\ frontend = "agent" THEN "failed"
                   ELSE IF last THEN "done" ELSE "parsed"
    /\ event' = "apply"
    /\ UNCHANGED <<response, changes, fragments, typed>>
    /\ UNCHANGED <<frontend, mode, dry_run, attempt, delays, shown>>
    /\ UNCHANGED indexVars
    /\ UNCHANGED storeVars
    /\ UNCHANGED chatVars

\* if changes.is_empty() { return Ok(()) } (agent.rs:127-130); the repl
\* asks nothing for an empty ChangeSet (chat.rs:366).
PatchNothing ==
    /\ pc = "parsed" /\ ~changes.panicked
    /\ is_empty(changes)
    /\ pc' = "done"
    /\ event' = "empty"
    /\ UNCHANGED <<response, fs, changes, fragments, typed>>
    /\ UNCHANGED <<frontend, mode, dry_run, log, cursor, attempt, delays,
                   shown>>
    /\ UNCHANGED indexVars
    /\ UNCHANGED storeVars
    /\ UNCHANGED chatVars

NextPatch == Parse \/ PatchApply \/ PatchNothing

SpecPatch == InitPatch /\ [][NextPatch]_vars

\* ------------------------------------------------------------- tools
\* tools::execute_tool (tui/tools.rs).  A path argument is a sequence of
\* components, "/" first when it is absolute; the disk is that of the
\* change applier.  A command line is a sequence of symbols: words, the
\* blank " ", the newline and the characters "|", "&" and ";".

DANGEROUS_COMMANDS ==
    { "rm", "rmdir", "sudo", "chmod", "chown", "dd", "mkfs", "kill", "pkill",
      "killall", "shutdown", "reboot", "halt", "format", "fdisk", "parted",
      "mount", "umount" }

\* What follows the last "/" of a word, "" for a word without "/".
AfterLastSlash(word) ==
    CASE word = "/bin/rm" -> "rm"
      [] word = "./mk"    -> "mk"
      [] OTHER            -> ""

\* split_whitespace().next().unwrap_or(""): the first run of symbols that
\* are not white space.
RECURSIVE RunFrom(_)
RunFrom(s) ==
    IF s = <<>> \/ Head(s) \in Whitespace THEN <<>>
    ELSE <<Head(s)>> \o RunFrom(Tail(s))

FirstWord(s) == RunFrom(TrimStart(s))

\* first == *dangerous || first.ends_with(&format!("/{}", dangerous))
IsDangerousWord(first) ==
    \/ Len(first) = 1 /\ first[1] \in DANGEROUS_COMMANDS
    \/ first # <<>> /\ AfterLastSlash(first[Len(first)]) \in DANGEROUS_COMMANDS

\* str::split(pat): the parts between the occurrences of pat, found from
\* left to right without overlap.
RECURSIVE SplitAt(_, _, _)
SplitAt(s, pat, part) ==
    IF s = <<>> THEN <<part>>
    ELSE IF StartsWithAt(s, pat, 0)
         THEN <<part>> \o SplitAt(SubSeq(s, Len(pat) + 1, Len(s)), pat, <<>>)
         ELSE SplitAt(Tail(s), pat, Append(part, Head(s)))

Split(s, pat) == SplitAt(s, pat, <<>>)

\* command.split('|').chain(command.split("&&")).chain(command.split(";"))
CommandParts(command) ==
    Split(command, <<"|">>) \o Split(command, <<"&", "&">>)
        \o Split(command, <<";">>)

\* tools::is_dangerous_command
is_dangerous_command(command) ==
    \/ IsDangerousWord(FirstWord(command))
    \/ \E n \in 1..Len(CommandParts(command)) :
          IsDangerousWord(FirstWord(Trim(CommandParts(command)[n])))

\* Path::starts_with, by components
starts_with(path, prefix) ==
    Len(prefix) <= Len(path) /\ SubSeq(path, 1, Len(prefix)) = prefix

\* Path::canonicalize: the place the walk reaches, if it exists
canonicalize(disk, p) ==
    LET r == Real(disk, p) IN
    IF r.ok /\ (r.path = <<"/">> \/ Lookup(disk, r.path).kind # "missing")
    THEN Some(r.path) ELSE None

\* tools::is_path_within_project
RECURSIVE is_path_within_project(_, _, _)
is_path_within_project(disk, path, project_root) ==
    IF canonicalize(disk, path) # None
    THEN starts_with(canonicalize(disk, path)[1], project_root)
    ELSE IF path = <<>> \/ path = <<"/">> THEN FALSE
    ELSE IF Len(path) = 1 THEN TRUE
    ELSE is_path_within_project(disk, Parent(path), project_root)

\* tools::resolve_path
resolve_path(path_str, project_root) == Join(project_root, path_str)

ToolCall(name, arg) == [name |-> name, arg |-> arg]

\* A ToolResult, the disk the tool leaves and whether a shell was started.
ToolResult(name, success, output, needs_confirmation, disk, ran) ==
    [name |-> name, success |-> success, output |-> output,
     needs_confirmation |-> needs_confirmation, disk |-> disk, ran |-> ran]

AccessDenied(tool, disk) ==
    ToolResult(tool.name, FALSE, "Access denied", FALSE, disk, FALSE)

\* tools::execute_read_file
execute_read_file(disk, tool, project_root) ==
    LET path == resolve_path(tool.arg, project_root) IN
    IF ~is_path_within_project(disk, path, project_root)
    THEN AccessDenied(tool, disk)
    ELSE IF /\ Real(disk, path).ok
            /\ Lookup(disk, Real(disk, path).path).kind \in {"file", "readonly"}
         THEN ToolResult(tool.name, TRUE, "content", FALSE, disk, FALSE)
         ELSE ToolResult(tool.name, FALSE, "Error reading file", FALSE, disk, FALSE)

\* tools::execute_write_file; the tool call's content is "t".
execute_write_file(disk, tool, project_root) ==
    LET path == resolve_path(tool.arg, project_root) IN
    IF ~is_path_within_project(disk, path, project_root)
    THEN AccessDenied(tool, disk)
    ELSE LET made == IF Len(path) > 1
                     THEN create_dir_all(disk, Parent(path)).disk ELSE disk
             w == fs_write(made, path, <<"t">>)
         IN IF w.ok
            THEN ToolResult(tool.name, TRUE, "File written", FALSE, w.disk, FALSE)
            ELSE ToolResult(tool.name, FALSE, "Error writing file", FALSE,
                            w.disk, FALSE)

\* tools::execute_list_directory
execute_list_directory(disk, tool, project_root) ==
    LET path == resolve_path(tool.arg, project_root) IN
    IF ~is_path_within_project(disk, path, project_root)
    THEN AccessDenied(tool, disk)
    ELSE IF IsDirAt(disk, path)
         THEN ToolResult(tool.name, TRUE, "items", FALSE, disk, FALSE)
         ELSE ToolResult(tool.name, FALSE, "Error listing directory", FALSE,
                         disk, FALSE)

\* tools::execute_search_in_files: grep is started in the directory
execute_search_in_files(disk, tool, project_root) ==
    LET path == resolve_path(tool.arg, project_root) IN
    IF ~is_path_within_project(disk, path, project_root)
    THEN AccessDenied(tool, disk)
    ELSE IF IsDirAt(disk, path)
         THEN ToolResult(tool.name, TRUE, "matches", FALSE, disk, FALSE)
         ELSE ToolResult(tool.name, FALSE, "Error searching", FALSE, disk, FALSE)

\* The commands of a command line as bash takes them apart: "|", "&", ";"
\* and the newline, alone or doubled, end a command.
RECURSIVE ShellCommandsFrom(_, _)
ShellCommandsFrom(s, command) ==
    IF s = <<>> THEN <<command>>
    ELSE IF Head(s) \in {"|", "&", ";", "\n"}
         THEN <<command>> \o ShellCommandsFrom(Tail(s), <<>>)
         ELSE ShellCommandsFrom(Tail(s), Append(command, Head(s)))

ShellCommands(s) == ShellCommandsFrom(s, <<>>)

\* The name of a command: its first word.
CommandName(command) ==
    IF TrimStart(command) = <<>> THEN "" ELSE Head(TrimStart(command))

\* bash -c command, started in the project: rm a.rs removes a.rs.
Bash(disk, command) ==
    IF \E n \in 1..Len(ShellCommands(command)) :
          LET c == TrimStart(ShellCommands(command)[n]) IN
          /\ Len(c) >= 3
          /\ c[1] \in {"rm", "/bin/rm"} /\ c[2] = " " /\ c[3] = "a.rs"
    THEN (PathA :> NoFile) @@ disk
    ELSE disk

\* tools::execute_bash
execute_bash(disk, tool, project_root) ==
    IF tool.arg = <<>>
    THEN ToolResult(tool.name, FALSE, "No command provided", FALSE, disk, FALSE)
    ELSE IF is_dangerous_command(tool.arg)
    THEN ToolResult(tool.name, FALSE, "DANGEROUS COMMAND DETECTED", TRUE,
                    disk, FALSE)
    ELSE ToolResult(tool.name, TRUE, "output", FALSE, Bash(disk, tool.arg), TRUE)

\* tools::execute_tool
execute_tool(disk, tool, project_root) ==
    CASE tool.name = "read_file" -> execute_read_file(disk, tool, project_root)
      [] tool.name = "write_file" -> execute_write_file(disk, tool, project_root)
      [] tool.name = "list_directory" ->
            execute_list_directory(disk, tool, project_root)
      [] tool.name = "search_in_files" ->
            execute_search_in_files(disk, tool, project_root)
      [] tool.name = "execute_bash" -> execute_bash(disk, tool, project_root)
      [] OTHER -> ToolResult(tool.name, FALSE, "Unknown tool", FALSE, disk, FALSE)

PathSrc    == base_path \o <<"src">>
PathOut    == <<"/", "out">>
PathSecret == <<"/", "out", "secret">>

\* The disks the tools work on: the project with a.rs and, or not, the
\* directory src, and next to the project the directory /out with a file.
ToolDisks ==
    { (PathProj :> Dir) @@ (PathA :> File(<<"x">>)) @@ (PathSrc :> src)
          @@ (PathOut :> Dir) @@ (PathSecret :> File(<<"s">>)) :
        src \in {Dir, NoFile} }

\* The path arguments: relative ones inside the project, to files that
\* exist and that do not; the project itself; absolute ones inside and
\* outside; and relative ones that climb out of the project, through
\* directories that exist and through one that does not.
PathArguments ==
    { <<"a.rs">>, <<"src", "new.rs">>, <<"new", "deep", "f.rs">>, <<>>,
      <<"/", "proj", "a.rs">>, <<"/", "out", "secret">>, <<"/", "out", "new.txt">>,
      <<"..", "out", "secret">>, <<"..", "out", "new.txt">>,
      <<"src", "..", "..", "out", "secret">>,
      <<"new", "..", "..", "out", "secret">>,
      <<"new", "..", "..", "out", "new.txt">> }

\* The command lines: harmless ones, rm as the first command, with a
\* directory before its name, after blanks, after each separator of the
\* shell and as a mere argument, and no command at all.
CommandLines ==
    { <<"echo", " ", "x">>, <<"./mk", " ", "x">>, <<"echo", " ", "rm">>, <<>>,
      <<"rm", " ", "a.rs">>, <<"/bin/rm", " ", "a.rs">>,
      <<" ", "rm", " ", "a.rs">>,
      <<"echo", " ", "x", " ", "|", " ", "rm", " ", "a.rs">>,
      <<"echo", "|", "rm", " ", "a.rs">>,
      <<"echo", " ", "x", " ", "&", "&", " ", "rm", " ", "a.rs">>,
      <<"echo", " ", "x", ";", " ", "/bin/rm", " ", "a.rs">>,
      <<"echo", " ", "x", " ", "|", "|", " ", "rm", " ", "a.rs">>,
      <<"echo", " ", "x", " ", "&", " ", "rm", " ", "a.rs">>,
      <<"echo", " ", "x", "\n", "rm", " ", "a.rs">> }

ToolCalls ==
    { ToolCall(name, arg) :
        name \in {"read_file", "write_file", "list_directory",
                  "search_in_files", "delete_file"},
        arg \in PathArguments }
    \cup { ToolCall("execute_bash", command) : command \in CommandLines }

MaxToolCalls == 2

InitTools ==
    /\ response = <<>>
    /\ fs \in ToolDisks
    /\ changes = EmptyChangeSet
    /\ fragments = <<>>
    /\ pc = "tools"
    /\ typed = [pieces |-> 0, blocks |-> 0]
    /\ frontend = "tui"
    /\ mode = "Code"
    /\ dry_run = FALSE
    /\ log = <<>>
    /\ cursor = 0
    /\ attempt = 0
    /\ delays = <<>>
    /\ shown = <<>>
    /\ event = "none"
    /\ NoIndexing
    /\ NoStore
    /\ NoChat

\* let result = tools::execute_tool(tool_call, &self.app.project_path);
\* the log keeps the call, the disk before it and the result.
ExecuteTool ==
    /\ pc = "tools" /\ Len(log) < MaxToolCalls
    /\ \E tool \in ToolCalls :
         LET r == execute_tool(fs, tool, base_path) IN
         /\ fs' = r.disk
         /\ log' = Append(log, [tool |-> tool, before |-> fs, after |-> r.disk,
                                success |-> r.success, output |-> r.output,
                                needs_confirmation |-> r.needs_confirmation,
                                ran |-> r.ran])
    /\ event' = "tool"
    /\ UNCHANGED <<response, changes, fragments, pc, typed>>
    /\ UNCHANGED <<frontend, mode, dry_run, cursor, attempt, delays, shown>>
    /\ UNCHANGED indexVars
    /\ UNCHANGED storeVars
    /\ UNCHANGED chatVars

NextTools == ExecuteTool

SpecTools == InitTools /\ [][NextTools]_vars

\* ------------------------------------------------------ persistent index
\* PersistentIndex (persistent_index.rs): the table `files` is the
\* sequence of its rows in rowid order; relative_path is UNIQUE.  Of a
\* row's columns those that a query of the model reads are kept.

\* hash_content: the SHA-256 digest, which tells apart all the texts used.
hash_content(content) == [sha256 |-> content]

\* The rowids of the rows with this relative_path.
RowsOf(table, relative_path) ==
    {k \in 1..Len(table) : table[k].relative_path = relative_path}

\* as Upsert, with INSERT OR IGNORE: a stored row is left as it is
InsertOrIgnore(table, row) ==
    IF RowsOf(table, row.relative_path) # {} THEN table
    ELSE Append(table, [row EXCEPT !.id = Len(table) + 1])

\* INSERT INTO files ... ON CONFLICT(relative_path) DO UPDATE SET ...
Upsert(table, row) ==
    IF RowsOf(table, row.relative_path) # {}
    THEN [k \in 1..Len(table) |->
            IF table[k].relative_path = row.relative_path
            THEN [row EXCEPT !.id = table[k].id] ELSE table[k]]
    ELSE Append(table, [row EXCEPT !.id = Len(table) + 1])

\* PersistentIndex::index_file
index_file(table, absolute_path, relative_path, content) ==
    Upsert(table, [id |-> 0, relative_path |-> relative_path,
                   absolute_path |-> absolute_path,
                   content_hash |-> hash_content(content),
                   size |-> ByteLen(content), content |-> content])

\* PersistentIndex::needs_reindex
needs_reindex(table, relative_path, content) ==
    IF RowsOf(table, relative_path) = {} THEN TRUE
    ELSE LET stored_hash ==
                 table[CHOOSE k \in RowsOf(table, relative_path) : TRUE].content_hash
         IN stored_hash # hash_content(content)

\* PersistentIndex::get_content
get_content(table, relative_path) ==
    IF RowsOf(table, relative_path) = {} THEN None
    ELSE Some(table[CHOOSE k \in RowsOf(table, relative_path) : TRUE].content)

\* PersistentIndex::stats: SELECT COUNT(*) and SUM(size)
stats(table) ==
    [count |-> Len(table),
     size |-> ByteLen([k \in 1..Len(table) |-> Piece("row", table[k].size)])]

\* The arguments of the calls: the paths and texts of the module's test,
\* a second path, a second location of the project and the empty text.
StorePaths == {"file.rs", "src/lib.rs"}
StoreRoots == {"/test", "/moved"}
StoreContents ==
    { <<Piece("fn main() {}", 12)>>, <<Piece("fn main() { println!(); }", 25)>>,
      <<>> }

MaxCalls == 3

Answer(op, relative_path, content, result) ==
    [op |-> op, relative_path |-> relative_path, content |-> content,
     result |-> result]

\* PersistentIndex::open on a project without .codestral/index.db
InitStore ==
    /\ response = <<>>
    /\ fs = (PathA :> NoFile)
    /\ changes = EmptyChangeSet
    /\ fragments = <<>>
    /\ pc = "open"
    /\ typed = [pieces |-> 0, blocks |-> 0]
    /\ frontend = "tui"
    /\ mode = "Code"
    /\ dry_run = FALSE
    /\ log = <<>>
    /\ cursor = 0
    /\ attempt = 0
    /\ delays = <<>>
    /\ shown = <<>>
    /\ event = "none"
    /\ NoIndexing
    /\ NoStore
    /\ NoChat

StoreOnly ==
    /\ UNCHANGED parseVars
    /\ UNCHANGED policyVars
    /\ UNCHANGED indexVars
    /\ UNCHANGED chatVars

IndexFile ==
    /\ pc = "open" /\ Len(calls) < MaxCalls
    /\ \E root \in StoreRoots, p \in StorePaths, c \in StoreContents :
         /\ db' = index_file(db, <<root, p>>, p, c)
         /\ calls' = Append(calls, [relative_path |-> p, content |-> c])
         /\ returned' = Answer("index_file", p, c, Some(0))
    /\ StoreOnly

NeedsReindex ==
    /\ pc = "open"
    /\ \E p \in StorePaths, c \in StoreContents :
         returned' = Answer("needs_reindex", p, c, needs_reindex(db, p, c))
    /\ UNCHANGED <<db, calls>>
    /\ StoreOnly

GetContent ==
    /\ pc = "open"
    /\ \E p \in StorePaths :
         returned' = Answer("get_content", p, <<>>, get_content(db, p))
    /\ UNCHANGED <<db, calls>>
    /\ StoreOnly

Stats ==
    /\ pc = "open"
    /\ returned' = Answer("stats", "", <<>>, stats(db))
    /\ UNCHANGED <<db, calls>>
    /\ StoreOnly

NextStore == IndexFile \/ NeedsReindex \/ GetContent \/ Stats

SpecStore == InitStore /\ [][NextStore]_vars

\* ------------------------------------------------------- conversations
\* The histories of the repl (chat.rs:95-105, 349-403) and of the tui
\* (tui/app.rs, tui/runner.rs:1262-1503).  A message is its role, where
\* its content comes from and the length of the content in bytes.  The
\* replies here hold no changes; what a reply does to the disk is the
\* subject of the session above.

Msg(role, from, len) == [role |-> role, from |-> from, len |-> len]

\* Message { role: "system", content: CHAT_SYSTEM_PROMPT } and the system
\* message the tui builds for each request (runner.rs:1276-1296)
SystemMessage == Msg("system", "prompt", 1200)

MAX_TOKENS == 32000

\* (MAX_TOKENS * 90) / 100
COMPACT_THRESHOLD == (MAX_TOKENS * 90) \div 100

\* self.messages.iter().map(|m| m.content.len() / 4).sum()
RECURSIVE update_tokens(_)
update_tokens(msgs) ==
    IF msgs = <<>> THEN 0
    ELSE (Head(msgs).len \div 4) + update_tokens(Tail(msgs))

\* App::to_api_messages: role and content of every message of the history
to_api_messages(msgs) == msgs

\* save_current_chat: the messages without the system prompt are copied
\* to the SavedChat, which is stored.
save_current_chat(msgs, chat) ==
    [messages |-> SelectSeq(msgs, LAMBDA m : m.role # "system"),
     stored |-> TRUE]

\* if self.messages.len() % 4 == 0
AutoSaveDue(msgs) == Len(msgs) % 4 = 0

\* compact_context: the last message is popped, a summary of the others
\* is asked for and, when it comes, replaces them, the popped message
\* pushed after it.
Compacted(msgs, ok) ==
    IF msgs = <<>>
    THEN IF ok THEN <<Msg("assistant", "summary", 40)>> ELSE <<>>
    ELSE IF ok THEN <<Msg("assistant", "summary", 40), msgs[Len(msgs)]>>
    ELSE SubSeq(msgs, 1, Len(msgs) - 1)

MaxExchanges == 4
MaxHistory == 4

InitChat ==
    /\ response = <<>>
    /\ fs = (PathA :> NoFile)
    /\ changes = EmptyChangeSet
    /\ fragments = <<>>
    /\ pc = "idle"
    /\ typed = [pieces |-> 0, blocks |-> 0]
    /\ frontend \in {"repl", "tui"}
    /\ mode \in {"Ask", "Auto"}
    /\ dry_run = FALSE
    /\ log = <<>>
    /\ cursor = 0
    /\ attempt = 0
    /\ delays = <<>>
    /\ shown = <<>>
    /\ event = "none"
    /\ NoIndexing
    /\ NoStore
    /\ messages = IF frontend = "repl" THEN <<SystemMessage>> ELSE <<>>
    /\ sent = <<>>
    /\ current_chat = [messages |-> <<>>, stored |-> FALSE]
    /\ loading = FALSE
    /\ run = [clean |-> frontend = "repl", unsaved |-> 0]

\* What a step of a conversation leaves alone.
ChatOnly ==
    /\ UNCHANGED <<response, fs, changes, fragments, typed>>
    /\ UNCHANGED <<frontend, mode, dry_run, log, cursor, attempt, delays, shown>>
    /\ UNCHANGED indexVars
    /\ UNCHANGED <<db, calls>>

\* The user's line is pushed and the history is sent (chat.rs:343-350).
ReplInput ==
    /\ frontend = "repl" /\ pc = "idle"
    /\ Len(messages) < 2 * MaxExchanges + 1
    /\ messages' = Append(messages, Msg("user", "input", 8))
    /\ sent' = messages'
    /\ pc' = "request"
    /\ event' = "send"
    /\ UNCHANGED <<current_chat, loading, run, returned>>
    /\ ChatOnly

\* Ok(response): the reply is pushed and the chat is stored when the
\* auto-save is due (chat.rs:352-397).
ReplReply ==
    /\ frontend = "repl" /\ pc = "request"
    /\ messages' = Append(messages, Msg("assistant", "model", 8))
    /\ current_chat' = IF AutoSaveDue(messages')
                       THEN save_current_chat(messages', current_chat)
                       ELSE current_chat
    /\ run' = [run EXCEPT !.unsaved =
                  IF AutoSaveDue(messages') THEN 0 ELSE @ + 1]
    /\ pc' = "idle"
    /\ event' = "reply"
    /\ UNCHANGED <<sent, loading, returned>>
    /\ ChatOnly

\* Err(e): the error is printed (chat.rs:398-400).
ReplError ==
    /\ frontend = "repl" /\ pc = "request"
    /\ run' = [clean |-> FALSE, unsaved |-> 0]
    /\ pc' = "idle"
    /\ event' = "fail"
    /\ UNCHANGED <<messages, sent, current_chat, loading, returned>>
    /\ ChatOnly

\* "/clear": self.messages.truncate(1)
ReplClear ==
    /\ frontend = "repl" /\ pc = "idle" /\ Len(messages) > 1
    /\ messages' = SubSeq(messages, 1, 1)
    /\ run' = [clean |-> TRUE, unsaved |-> 0]
    /\ event' = "clear"
    /\ UNCHANGED <<pc, sent, current_chat, loading, returned>>
    /\ ChatOnly

\* "/resume" of the chat stored last: the system prompt, then the stored
\* messages (chat.rs:203-210).
ReplResume ==
    /\ frontend = "repl" /\ pc = "idle" /\ current_chat.stored
    /\ messages' = <<SystemMessage>> \o current_chat.messages
    /\ run' = [clean |-> FALSE, unsaved |-> 0]
    /\ event' = "resume"
    /\ UNCHANGED <<pc, sent, current_chat, loading, returned>>
    /\ ChatOnly

\* Enter in the tui: add_user_message(input), loading = true, and
\* send_message_internal is entered (runner.rs:301-314).  The input is a
\* line or a pasted file.
TuiInput ==
    /\ frontend = "tui" /\ pc = "idle" /\ Len(messages) < MaxHistory
    /\ \E len \in {8, 120000} :
         messages' = Append(messages, Msg("user", "input", len))
    /\ loading' = TRUE
    /\ pc' = "loop"
    /\ event' = "input"
    /\ UNCHANGED <<sent, current_chat, run, returned>>
    /\ ChatOnly

\* The top of the loop with the history over the threshold:
\* compact_context, whose summary request succeeds or fails
\* (runner.rs:1268-1273, 1458-1503).
TuiCompact ==
    /\ frontend = "tui" /\ pc = "loop"
    /\ update_tokens(messages) > COMPACT_THRESHOLD
    /\ \E ok \in BOOLEAN :
         /\ messages' = Compacted(messages, ok)
         /\ returned' = [op |-> "compact", before |-> messages, ok |-> ok]
    /\ sent' = <<Msg("system", "compact_prompt", 100),
                 Msg("user", "history", update_tokens(messages) * 4)>>
    /\ loading' = TRUE
    /\ pc' = "send"
    /\ event' = "compact"
    /\ UNCHANGED <<current_chat, run>>
    /\ ChatOnly

\* The request of one iteration: the system message, then the history
\* (runner.rs:1275-1310).
TuiRequest ==
    /\ frontend = "tui"
    /\ \/ pc = "loop" /\ update_tokens(messages) <= COMPACT_THRESHOLD
       \/ pc = "send"
    /\ sent' = <<SystemMessage>> \o to_api_messages(messages)
    /\ loading' = TRUE
    /\ pc' = "request"
    /\ event' = "send"
    /\ UNCHANGED <<messages, current_chat, run, returned>>
    /\ ChatOnly

\* All attempts have failed: the error is put into the history
\* (runner.rs:1447-1451).
TuiFails ==
    /\ frontend = "tui" /\ pc = "request"
    /\ messages' = Append(messages, Msg("assistant", "error", 40))
    /\ loading' = FALSE
    /\ pc' = "idle"
    /\ event' = "fail"
    /\ UNCHANGED <<sent, current_chat, run, returned>>
    /\ ChatOnly

\* A reply has come (runner.rs:1320-1445): with tool calls that produced
\* results, the reply and the results are pushed and the loop goes on;
\* with dangerous commands only, the reply and a warning are pushed; any
\* other reply is pushed and, in Auto with [CONTINUE] and no [TERMINE],
\* "Continue." is pushed and the loop goes on.  The loop is followed as
\* long as the history stays within MaxHistory + 2 messages.
TuiReply ==
    /\ frontend = "tui" /\ pc = "request"
    /\ \E kind \in {"text", "continue", "tools", "dangerous"} :
         LET reply == Msg("assistant", "model", 8)
             again == \/ kind = "tools"
                      \/ kind = "continue" /\ mode = "Auto"
         IN /\ again => Len(messages) < MaxHistory
            /\ messages' =
                 IF kind = "tools"
                 THEN messages \o <<reply, Msg("user", "tools", 8)>>
                 ELSE IF kind = "dangerous"
                 THEN messages \o <<reply, Msg("assistant", "warning", 40)>>
                 ELSE IF again
                 THEN messages \o <<reply, Msg("user", "continue", 9)>>
                 ELSE Append(messages, reply)
            /\ pc' = IF again THEN "loop" ELSE "idle"
    /\ loading' = FALSE
    /\ event' = "reply"
    /\ UNCHANGED <<sent, current_chat, run, returned>>
    /\ ChatOnly

NextChat ==
    \/ ReplInput \/ ReplReply \/ ReplError \/ ReplClear \/ ReplResume
    \/ TuiInput \/ TuiCompact \/ TuiRequest \/ TuiFails \/ TuiReply

SpecChat == InitChat /\ [][NextChat]_vars

\* ---------------------------------------------------------------- claims
\* The formulas below describe the reply by positions (1-based indices into
\* `response`) instead of re-running the parser.

Returned == pc = "parsed" /\ ~changes.panicked

\* The first position after `from` that holds `sym` and lies before
\* `limit`, or 0.
NextAfter(sym, from, limit) ==
    IF \E i \in (from + 1)..(limit - 1) : response[i] = sym
    THEN CHOOSE i \in (from + 1)..(limit - 1) :
            response[i] = sym /\ \A j \in (from + 1)..(i - 1) : response[j] # sym
    ELSE 0

\* The text strictly between positions lo and hi without its surrounding
\* whitespace.
TrimmedBetween(lo, hi) ==
    LET inner == {k \in (lo + 1)..(hi - 1) : response[k] \notin {" ", "\n"}}
    IN IF inner = {} THEN <<>>
       ELSE SubSeq(response,
                   CHOOSE k \in inner : \A j \in inner : k <= j,
                   CHOOSE k \in inner : \A j \in inner : k >= j)

\* Number of elements of S that are at most i: the rank of i in S.
Rank(S, i) == Cardinality({j \in S : j <= i})

FileTagAt == {i \in 1..Len(response) : response[i] \in FileTags}
NewTagAt  == {i \in 1..Len(response) : response[i] \in NewFileTags}

\* Position of the literal that closes the block opened at i, or 0.
FileCloseOf(i) == NextAfter(FILE_CLOSE, i, Len(response) + 1)
NewCloseOf(i)  == NextAfter(NEW_FILE_CLOSE, i, Len(response) + 1)

\* The markers of the block opened at i, located in order: ORIGINAL, the
\* separator that follows it, the MODIFIED that follows that separator.
OrigOf(i) == NextAfter(ORIGINAL, i, FileCloseOf(i))
SepOf(i)  == IF OrigOf(i) = 0 THEN 0 ELSE NextAfter(SEPARATOR, OrigOf(i), FileCloseOf(i))
ModOf(i)  == IF SepOf(i) = 0 THEN 0 ELSE NextAfter(MODIFIED, SepOf(i), FileCloseOf(i))

\* The block opened at i is closed and holds each of the three markers.
HasAllMarkers(i) ==
    /\ FileCloseOf(i) # 0
    /\ \A m \in {ORIGINAL, SEPARATOR, MODIFIED} : NextAfter(m, i, FileCloseOf(i)) # 0

\* A well-formed block: closed, and its first ORIGINAL, first separator and
\* first MODIFIED come in that order.
WellFormed(i) ==
    /\ HasAllMarkers(i)
    /\ NextAfter(ORIGINAL, i, FileCloseOf(i)) < NextAfter(SEPARATOR, i, FileCloseOf(i))
    /\ NextAfter(SEPARATOR, i, FileCloseOf(i)) < NextAfter(MODIFIED, i, FileCloseOf(i))

OriginalFragment(i) == TrimmedBetween(OrigOf(i), SepOf(i))
ModifiedFragment(i) == TrimmedBetween(SepOf(i), ModOf(i))

TargetOf(i) == Join(base_path, CapturedPath(response[i]))

\* The target's content on disk; empty when it is missing or unreadable.
OnDisk(path) ==
    IF path \in DOMAIN fs /\ fs[path].kind \in {"file", "readonly"}
    THEN fs[path].content ELSE <<>>

\* 0-based offsets at which o occurs in s.
Occurrences(s, o) ==
    {h \in 0..(Len(s) - Len(o)) : \A k \in 1..Len(o) : s[h + k] = o[k]}

\* The occurrences a left-to-right scan replaces: those not overlapped by
\* an earlier replaced one.
Replaced(s, o) ==
    CHOOSE H \in SUBSET Occurrences(s, o) :
        \A k \in Occurrences(s, o) :
            (k \in H) <=> ~(\E h \in H : h < k /\ k < h + Len(o))

\* r is s with every occurrence of o replaced by m.
IsGlobalReplacement(r, s, o, m) ==
    LET H == Replaced(s, o)
        Before(x) == Cardinality({h \in H : h < x})
        Shift(n)  == n * (Len(m) - Len(o))
        Covered(j) == \E h \in H : h < j /\ j <= h + Len(o)
    IN /\ Len(r) = Len(s) + Shift(Cardinality(H))
       /\ \A h \in H : \A k \in 1..Len(m) : r[h + Shift(Before(h)) + k] = m[k]
       /\ \A j \in 1..Len(s) :
            ~Covered(j) => r[j + Shift(Cardinality({h \in H : h + Len(o) < j}))] = s[j]

\* The blocks that change their target: well-formed, and the replacement
\* differs from the content on disk.
Effective(i) ==
    /\ WellFormed(i)
    /\ Occurrences(OnDisk(TargetOf(i)), OriginalFragment(i)) # {}
    /\ OriginalFragment(i) # ModifiedFragment(i)

EffectiveAt == {i \in FileTagAt : Effective(i)}

\* C1: parse_ai_response is total: whatever the reply, it returns a
\* ChangeSet and never panics.
C1_ParseIsTotal == pc = "parsed" => ~changes.panicked

\* C2: every recorded FileChange of a well-formed block has original = the
\* target's content on disk at parse time (empty when missing or unreadable)
\* and modified = that content with every occurrence of the ORIGINAL
\* fragment replaced by the MODIFIED fragment.
C2_GlobalReplacement ==
    Returned =>
        /\ Len(changes.modifications) = Cardinality(EffectiveAt)
        /\ \A i \in EffectiveAt :
             LET fc == changes.modifications[Rank(EffectiveAt, i)] IN
             /\ fc.path = TargetOf(i)
             /\ fc.original = OnDisk(TargetOf(i))
             /\ IsGlobalReplacement(fc.modified, OnDisk(TargetOf(i)),
                                    OriginalFragment(i), ModifiedFragment(i))

\* a block whose fragment occurs four times in a.rs, all four replaced
C2_Witness ==
    /\ Returned
    /\ \E i \in EffectiveAt :
         LET fc == changes.modifications[Rank(EffectiveAt, i)] IN
         /\ fc.original = <<"x", "x", "x", "y", "x">>
         /\ OriginalFragment(i) = <<"x">>
         /\ fc.modified = <<"y", "y", "y", "y", "y", "y", "y", "y", "y">>

\* C3: no-op suppression: every recorded FileChange has modified # original,
\* and a block whose ORIGINAL fragment does not occur in the file, or whose
\* replacement leaves the content as it is, contributes no entry.
C3_NoOpSuppressed ==
    Returned =>
        /\ \A n \in 1..Len(changes.modifications) :
             changes.modifications[n].modified # changes.modifications[n].original
        /\ Len(changes.modifications) =
             Cardinality({i \in FileTagAt :
                 /\ WellFormed(i)
                 /\ Occurrences(OnDisk(TargetOf(i)), OriginalFragment(i)) # {}
                 /\ OriginalFragment(i) # ModifiedFragment(i)})

\* a returned parse with one well-formed block that is suppressed (its
\* fragment is not in the file, or both fragments are equal) next to one
\* that is recorded
C3_Witness ==
    /\ Returned
    /\ Len(changes.modifications) = 1
    /\ \E i \in FileTagAt : WellFormed(i) /\ ~Effective(i)
                            /\ OnDisk(TargetOf(i)) # <<>>

\* C4: a file block that lacks one of the three markers contributes no
\* modification for its path, and a reply in which <plan> or </plan> is
\* absent contributes no plan step, whatever well-formed blocks surround
\* them: the ChangeSet holds only what the well-formed blocks contribute.
C4_MalformedDropped ==
    Returned =>
        /\ \A p \in {TargetOf(i) : i \in FileTagAt} :
             (\A i \in FileTagAt : TargetOf(i) = p => ~HasAllMarkers(i))
             => \A n \in 1..Len(changes.modifications) :
                    changes.modifications[n].path # p
        /\ Len(changes.modifications)
             <= Cardinality({i \in FileTagAt : HasAllMarkers(i)})
        /\ (NextAfter(PLAN_OPEN, 0, Len(response) + 1) = 0
            \/ NextAfter(PLAN_CLOSE, 0, Len(response) + 1) = 0)
           => changes.plan = <<>>

\* a block without its separator between a well-formed block of another
\* path that is recorded and an unbalanced plan tag
C4_Witness ==
    /\ Returned
    /\ Len(changes.modifications) = 1
    /\ changes.modifications[1].path = PathB
    /\ \E i \in FileTagAt :
         /\ TargetOf(i) = PathA /\ FileCloseOf(i) # 0 /\ ~HasAllMarkers(i)
         /\ NextAfter(ORIGINAL, i, FileCloseOf(i)) # 0
    /\ NextAfter(PLAN_OPEN, 0, Len(response) + 1) # 0
    /\ NextAfter(PLAN_CLOSE, 0, Len(response) + 1) = 0

\* C5: in every block content that holds all three markers the fragments
\* are located in order: ORIGINAL fragment = trimmed text between the
\* ORIGINAL marker and the following separator, MODIFIED fragment = trimmed
\* text between that separator and the following MODIFIED marker.
C5_FragmentsInOrder ==
    pc = "parsed" =>
        \A i \in FileTagAt :
            (HasAllMarkers(i) /\ ModOf(i) # 0) =>
                \E n \in 1..Len(fragments) :
                    /\ fragments[n].tag = i
                    /\ ~fragments[n].frag.panicked
                    /\ fragments[n].frag.original = OriginalFragment(i)
                    /\ fragments[n].frag.modified = ModifiedFragment(i)

\* C6: every <new_file path=P> tag followed by a </new_file> yields exactly
\* one NewFile, in document order, with path base_path.join(P) and the
\* trimmed text up to the next </new_file> as content, whether or not the
\* target exists and even when the content is empty.
C6_NewFiles ==
    Returned =>
        LET closed == {i \in NewTagAt : NewCloseOf(i) # 0} IN
        /\ Len(changes.new_files) = Cardinality(closed)
        /\ \A i \in closed :
             LET nf == changes.new_files[Rank(closed, i)] IN
             /\ nf.path = TargetOf(i)
             /\ nf.content = TrimmedBetween(i, NewCloseOf(i))

\* two entries in document order: an empty one for a.rs, which exists on
\* disk, before a non-empty one for another path
C6_Witness ==
    /\ Returned
    /\ Len(changes.new_files) = 2
    /\ changes.new_files[1].path = PathA /\ changes.new_files[1].content = <<>>
    /\ OnDisk(PathA) # <<>>
    /\ changes.new_files[2].path # PathA /\ changes.new_files[2].content # <<>>

\* C7: the plan is the text between the first <plan> and the first </plan>:
\* each of its lines, stripped of leading digits, ".", "-" and spaces, is
\* one plan step when something remains; steps are in document order and
\* nothing outside that span becomes a step.
C7_PlanSteps ==
    Returned =>
        LET p == NextAfter(PLAN_OPEN, 0, Len(response) + 1)
            q == NextAfter(PLAN_CLOSE, 0, Len(response) + 1)
            span == IF p # 0 /\ q # 0 THEN (p + 1)..(q - 1) ELSE {}
            strip == {"0", "1", "2", "3", "4", "5", "6", "7", "8", "9", ".", "-", " "}
            SameLine(j, k) == \A n \in j..k : response[n] # "\n"
            starts == {k \in span :
                         /\ response[k] \notin strip \cup {"\n"}
                         /\ \A j \in span : (j < k /\ SameLine(j, k))
                                             => response[j] \in strip}
            EndOf(k) == CHOOSE e \in span :
                         /\ e >= k /\ SameLine(k, e) /\ response[e] # " "
                         /\ \A f \in span : (f > e /\ SameLine(k, f))
                                             => response[f] = " "
        IN /\ Len(changes.plan) = Cardinality(starts)
           /\ \A k \in starts :
                changes.plan[Rank(starts, k)] = SubSeq(response, k, EndOf(k))

\* two different steps in document order, one of them numbered, with text
\* before the plan that is not a step
C7_Witness ==
    /\ Returned
    /\ Len(changes.plan) = 2
    /\ changes.plan[1] # changes.plan[2]
    /\ \E i \in 1..Len(response) : response[i] = "1"
    /\ response[1] \notin {PLAN_OPEN, " ", "\n"}


\* ------------------------------------------------ confirmation policy

\* The reply in hand carries a ChangeSet with at least one item.
HoldsChanges == ~changes.panicked /\ ~is_empty(changes)

\* The handling of the reply in hand has ended.
Handled == pc \in {"done", "failed", "replied"}

Applies(l) == {k \in 1..Len(l) : l[k].ev = "apply"}
Confirms(l) == {k \in 1..Len(l) : l[k].ev = "confirm"}

\* C8: in Plan mode, while a reply with a non-empty ChangeSet is handled,
\* no step writes to the filesystem and apply() is never called on a
\* modification or a new file, in the agent, the repl and the tui.
C8_PlanWritesNothing ==
    [][ (mode = "Plan" /\ (HoldsChanges \/ HoldsChanges'))
         => (fs' = fs /\ Applies(log') = {}) ]_vars

\* C8 witness: a reply with a non-empty ChangeSet was handled to the end
\* in Plan mode, here by the tui.
C8_Witness ==
    /\ mode = "Plan" /\ HoldsChanges /\ Handled
    /\ frontend = "tui"
    /\ Len(changes.modifications) > 0 /\ Len(changes.new_files) > 0

\* The confirmation e was asked about item i alone: it names the item, or
\* it was asked about a ChangeSet that has no other item.
AsksAbout(e, i) ==
    /\ e.ev = "confirm"
    /\ e.item = i \/ (e.item = 0 /\ Len(Items(changes)) = 1)

\* C9: in Interactive (Code) mode every item is confirmed individually
\* before it is applied: an apply() of an item comes after a confirmation
\* of that very item answered yes, a declined item is never applied nor
\* asked again, and after a declined item the next item is still offered.
C9_ConfirmedIndividually ==
    (mode \in {"Interactive", "Code"} /\ HoldsChanges) =>
        /\ \A k \in Applies(log) :
             \E j \in 1..(k - 1) : AsksAbout(log[j], log[k].item) /\ log[j].ok
        /\ \A k \in Confirms(log) :
             ~log[k].ok =>
                \A j \in 1..Len(log) : j # k => log[j].item # log[k].item
        /\ Handled =>
             \A k \in Confirms(log) :
                (~log[k].ok /\ log[k].item \in 1..(Len(Items(changes)) - 1)) =>
                   \E j \in Confirms(log) : log[j].item = log[k].item + 1

\* C10: in Auto mode every item of the ChangeSet is applied with no
\* confirmation, the modifications in their order and then the new files
\* in theirs: once the reply is handled, the apply() calls made are those
\* of items 1..n in this order, and no confirmation was asked.
C10_AutoAppliesAll ==
    (mode = "Auto" /\ ~dry_run /\ HoldsChanges) =>
        /\ Confirms(log) = {}
        /\ \A k \in Applies(log) : log[k].item = k
        /\ Handled => Len(log) = Len(Items(changes))


\* The number of entries of the sequence sq that satisfy the test.
CountOf(sq, Test(_)) == Cardinality({k \in 1..Len(sq) : Test(sq[k])})

IsError(x) == x = "error"
IsFailedApply(e) == e.ev = "apply" /\ ~e.ok

\* C11: application errors are per item, in every front end: when apply()
\* of an item fails, the item after it is still attempted (applied or, in
\* Interactive mode, offered), and each failure is reported, so that once
\* the reply is handled as many errors were put out as apply() calls failed.
C11_ErrorsArePerItem ==
    (Handled /\ HoldsChanges) =>
        /\ \A k \in Applies(log) :
             (~log[k].ok /\ log[k].item < Len(Items(changes))) =>
                \E j \in (k + 1)..Len(log) : log[j].item = log[k].item + 1
        /\ CountOf(shown, IsError) = CountOf(log, IsFailedApply)

\* C12: in Ask mode no change is considered, whatever the reply contains:
\* nothing is confirmed or applied, nothing is displayed as a change, and
\* once the reply has arrived it is shown as plain text.
C12_AskShowsText ==
    mode = "Ask" =>
        /\ Applies(log) = {} /\ Confirms(log) = {}
        /\ \A k \in 1..Len(shown) : shown[k] # "changes"
        /\ event = "reply" => shown = <<"text">>


\* The cycle of the session modes as C13 states it.
CycleOrder == <<"Ask", "Plan", "Code", "Auto">>

After(m) ==
    LET k == CHOOSE n \in 1..Len(CycleOrder) : CycleOrder[n] = m
    IN CycleOrder[(k % Len(CycleOrder)) + 1]

\* C13: the mode of a conversational session starts as Code; the cycling
\* key moves it one place along Ask, Plan, Code, Auto, Ask (so four
\* presses lead back), a mode command sets the mode it names, and nothing
\* else (sending, a reply, a confirmation, an apply, an error) changes it.
C13_ModeMachine ==
    /\ frontend \in {"repl", "tui"} => mode = "Code"
    /\ [][ /\ event' = "cycle" =>
                /\ mode' = After(mode)
                /\ After(After(After(mode'))) = mode
           /\ event' \in ChatModes => mode' = event'
           /\ event' \notin (ChatModes \cup {"cycle"}) => mode' = mode ]_vars

\* C13 witness: the cycling key has wrapped around from Auto to Ask in a
\* session that has already handled a reply.
C13_Witness ==
    /\ event = "cycle" /\ mode = "Ask"
    /\ frontend = "tui"
    /\ Lookup(fs, PathN).kind = "file"

\* The waits C14 names, in seconds, before the 2nd, 3rd and 4th attempt.
RetryWaits == <<1, 2, 4>>

\* C14: in the tui the transport call of a request is attempted at most
\* four times with waits of 1, 2 and 4 seconds before the retries, no
\* attempt follows a success, and what follows a reply is never retried:
\* its ChangeSet stays as parsed and no item is applied twice.
C14_BoundedRetries ==
    /\ [](frontend = "tui" =>
            /\ Len(delays) + 1 <= 4
            /\ \A k \in 1..Len(delays) : delays[k] = RetryWaits[k]
            /\ pc = "request" => attempt = Len(delays)
            /\ event = "reply" => pc # "request"
            /\ \A j, k \in Applies(log) : j # k => log[j].item # log[k].item)
    /\ [][ (frontend = "tui" /\ event' \in {"apply", "confirm"})
            => changes' = changes /\ delays' = delays ]_vars

\* C14 witness: the fourth attempt succeeded after waits of 1, 2 and 4
\* seconds and the items of its reply were applied.
C14_Witness ==
    /\ frontend = "tui" /\ delays = RetryWaits
    /\ pc = "replied" /\ Cardinality(Applies(log)) = 2

\* C15: when the transport call has failed for good, exactly one error is
\* put out for the request, nothing was parsed or applied from it, the
\* failing step writes nothing to the filesystem, and the request is over
\* (in the tui after the last of its attempts).
C15_TransportError ==
    /\ [](event = "fail" =>
            /\ shown = <<"error">>
            /\ log = <<>> /\ changes = EmptyChangeSet
            /\ pc \in {"idle", "failed"}
            /\ frontend = "tui" => Len(delays) = Len(RetryWaits))
    /\ [][ event' = "fail" => fs' = fs ]_vars

\* C15 witness: the tui gave up after its last attempt, in a session whose
\* earlier reply had been applied.
C15_Witness ==
    /\ event = "fail" /\ frontend = "tui"
    /\ Lookup(fs, PathN).kind = "file"


\* ------------------------------------------------------------ indexer

Indexed == pc \in {"indexed", "built"}
Built == pc = "built"

\* The header C16 and C18 name for a file: "\n--- {relative_path} ---\n".
HeaderOf(file) ==
    <<Piece("\n--- ", 5)>> \o file.relative_path \o <<Piece(" ---\n", 5)>>

\* The file as it stands in the context: its header, then its content.
FileText(file) == HeaderOf(file) \o file.content

\* The texts of files lo..hi of the index, one after the other.
RECURSIVE TextOfFiles(_, _)
TextOfFiles(lo, hi) ==
    IF lo > hi THEN <<>>
    ELSE FileText(index.files[lo]) \o TextOfFiles(lo + 1, hi)

\* The j-th smallest member of the set of numbers S, 0 for j = 0.
Nth(S, j) ==
    IF j = 0 THEN 0
    ELSE CHOOSE x \in S : Cardinality({y \in S : y <= x}) = j

\* C16: build_context partitions the index, for every index and every
\* max_tokens: the chunks are the texts of consecutive, non-empty runs of
\* the indexed files (header, then full content), every file falling in
\* exactly one run, in index order; no chunk is empty and an empty index
\* yields no chunk.
C16_Partition ==
    Built =>
        LET n == Len(index.files)
            chunks == context.chunks
        IN /\ n = 0 => chunks = <<>>
           /\ \A j \in 1..Len(chunks) : ByteLen(chunks[j]) > 0
           /\ \E ends \in SUBSET (1..n) :
                /\ n > 0 => n \in ends
                /\ Cardinality(ends) = Len(chunks)
                /\ \A j \in 1..Len(chunks) :
                     chunks[j] = TextOfFiles(Nth(ends, j - 1) + 1, Nth(ends, j))

\* C16 witness: three files were chunked with no room at all, one chunk
\* each, and one of them is an empty file.
C16_Witness ==
    /\ Built /\ context.max_tokens = 0
    /\ Len(index.files) = 3 /\ Len(context.chunks) = 3
    /\ \E i \in 1..3 : index.files[i].content = <<>>

\* The byte offset at which file i starts in the whole context, and chunk j.
RECURSIVE FileOffset(_)
FileOffset(i) ==
    IF i <= 1 THEN 0
    ELSE FileOffset(i - 1) + ByteLen(FileText(index.files[i - 1]))

RECURSIVE ChunkOffset(_)
ChunkOffset(j) ==
    IF j <= 1 THEN 0
    ELSE ChunkOffset(j - 1) + ByteLen(context.chunks[j - 1])

\* The files that chunk j holds.
FilesIn(j) ==
    {i \in 1..Len(index.files) :
        /\ ChunkOffset(j) <= FileOffset(i)
        /\ FileOffset(i) < ChunkOffset(j + 1)}

\* The estimated token count of chunk j: its length in bytes divided by 4.
ChunkEstimate(j) == ByteLen(context.chunks[j]) \div 4

Oversized == {j \in 1..Len(context.chunks) : ChunkEstimate(j) > context.max_tokens}

\* C17: the estimated token count of every chunk is at most max_tokens,
\* except possibly for one oversized chunk that holds a single file.
C17_ChunkBound ==
    Built =>
        /\ Cardinality(Oversized) <= 1
        /\ \A j \in Oversized : Cardinality(FilesIn(j)) = 1

\* The sum of f[x] over the x in S.
RECURSIVE SumOver(_, _)
SumOver(S, f) ==
    IF S = {} THEN 0
    ELSE LET x == CHOOSE y \in S : TRUE IN f[x] + SumOver(S \ {x}, f)

\* The estimate of each file as build_context counts it.
HeaderAndContentQuarter ==
    [i \in 1..Len(index.files) |->
        (ByteLen(HeaderOf(index.files[i])) + ByteLen(index.files[i].content)) \div 4]

\* C17 as amended: in every chunk that holds more than one file, the
\* per-file estimates ((header + content) / 4 each) add up to at most
\* max_tokens; only chunks of a single file go beyond it.
C17_ChunkBoundPerFile ==
    Built =>
        \A j \in 1..Len(context.chunks) :
            Cardinality(FilesIn(j)) > 1 =>
                SumOver(FilesIn(j), HeaderAndContentQuarter) <= context.max_tokens

\* C17 witness: a chunk of two files that exactly reach max_tokens, next
\* to a chunk of a single file that exceeds it.
C17_Witness ==
    /\ Built
    /\ \E j \in 1..Len(context.chunks) :
         /\ Cardinality(FilesIn(j)) = 2
         /\ SumOver(FilesIn(j), HeaderAndContentQuarter) = context.max_tokens
    /\ \E j \in Oversized : Cardinality(FilesIn(j)) = 1

\* C18: total_tokens_estimate is the sum over the indexed files of
\* (header length + content length) / 4, the counts build_context adds up.
C18_TotalMatchesContext ==
    Indexed =>
        index.total_tokens_estimate
            = SumOver(1..Len(index.files), HeaderAndContentQuarter)

ContentQuarter ==
    [i \in 1..Len(index.files) |-> ByteLen(index.files[i].content) \div 4]

\* C19: total_tokens_estimate is the sum over the indexed files of the
\* content length in bytes divided by 4, rounded down per file; an index
\* of one file of 12 bytes has total_tokens_estimate = 3.
C19_TotalIsContentQuarters ==
    Indexed =>
        /\ index.total_tokens_estimate
              = SumOver(1..Len(index.files), ContentQuarter)
        /\ (Len(index.files) = 1 /\ ByteLen(index.files[1].content) = 12)
              => index.total_tokens_estimate = 3

\* C19 witness: src/a.rs with its 12 bytes was indexed alone.
C19_Witness ==
    /\ Indexed
    /\ entries = <<A_RS>> /\ Len(index.files) = 1
    /\ index.total_tokens_estimate = 3

\* The pattern occurs in the text as consecutive pieces.
OccursIn(pat, text) ==
    \E i \in 1..(Len(text) + 1) :
        /\ i + Len(pat) - 1 <= Len(text)
        /\ SubSeq(text, i, i + Len(pat) - 1) = pat

\* C20: every file of an index is eligible: at most 100,000 bytes, read as
\* text, its lower-case extension in the allow-list (compared without
\* regard to case) when one is given and in the default list otherwise,
\* and no exclusion token, default or given, occurring in its path.
C20_Eligibility ==
    Indexed =>
        \A i \in 1..Len(index.files) :
            LET file == index.files[i] IN
            /\ file.size <= 100000
            /\ \E k \in 1..Len(entries) :
                 /\ entries[k].path = file.path
                 /\ entries[k].readable
                 /\ entries[k].content = file.content
            /\ IF config.has_include
               THEN \E k \in 1..Len(config.include_extensions) :
                       ToLower(config.include_extensions[k]).sym = file.extension
               ELSE file.extension \in DEFAULT_EXTENSIONS
            /\ \A k \in 1..Len(DefaultExcludes) :
                 ~OccursIn(DefaultExcludes[k], file.path)
            /\ \A k \in 1..Len(config.exclude_dirs) :
                 ~OccursIn(config.exclude_dirs[k], file.path)

\* C20 witness: with the allow-list TXT,rs the index holds notes.txt and
\* src/B.RS, and a file of exactly 100,000 bytes.
C20_Witness ==
    /\ Indexed /\ config.has_include
    /\ \E i \in 1..Len(index.files) : index.files[i].path = NOTES_TXT.path
    /\ \E i \in 1..Len(index.files) : index.files[i].path = B_RS.path
    /\ \E i \in 1..Len(index.files) : index.files[i].size = 100000

\* The entries of the walk that can be indexed under the configuration: no
\* exclusion token in the path, an accepted extension, metadata that can be
\* read, at most 100,000 bytes, and text content.
EligibleAt ==
    {k \in 1..Len(entries) :
        /\ \A e \in 1..Len(DefaultExcludes) :
             ~OccursIn(DefaultExcludes[e], entries[k].path)
        /\ \A e \in 1..Len(config.exclude_dirs) :
             ~OccursIn(config.exclude_dirs[e], entries[k].path)
        /\ IF config.has_include
           THEN \E e \in 1..Len(config.include_extensions) :
                   ToLower(config.include_extensions[e]).sym
                       = Extension(entries[k].path)
           ELSE Extension(entries[k].path) \in DEFAULT_EXTENSIONS
        /\ entries[k].has_metadata
        /\ entries[k].size <= 100000
        /\ entries[k].readable}

Min(a, b) == IF a <= b THEN a ELSE b

\* C21: index() keeps exactly the first min(max_files, number of eligible
\* files) eligible files in walk order: the index never holds more than
\* max_files files, its j-th file is the j-th eligible entry of the walk
\* (so ineligible entries met earlier use none of the cap), and every
\* eligible entry before the last kept one is kept.
C21_FirstEligibleKept ==
    Indexed =>
        /\ Len(index.files) <= config.max_files
        /\ Len(index.files) = Min(config.max_files, Cardinality(EligibleAt))
        /\ \A j \in 1..Len(index.files) :
             index.files[j].path = entries[Nth(EligibleAt, j)].path
        /\ \A j \in 1..Len(index.files) : \A k \in EligibleAt :
             k < Nth(EligibleAt, j) =>
                 \E h \in 1..j : index.files[h].path = entries[k].path

\* C21 witness: with a limit of one file the walk met an ineligible file,
\* then two eligible ones, and the index holds the first of these.
C21_Witness ==
    /\ Indexed /\ config.max_files = 1
    /\ Len(entries) = 3 /\ EligibleAt = {2, 3}
    /\ Len(index.files) = 1 /\ index.files[1].path = entries[2].path

\* The disk the k-th apply() of the log left behind.
DiskAfter(k) == log[k].after

\* C22: after a successful FileChange.apply() the target holds exactly the
\* change's modified text, whatever it held before; applying the same
\* FileChange again succeeds and leaves the content as it is; a failed
\* apply returns a write error that names the path.
C22_FileChangeApply ==
    \A k \in 1..Len(log) :
        log[k].kind = "mod" =>
            /\ log[k].ok =>
                 /\ Lookup(DiskAfter(k), log[k].item.path).kind = "file"
                 /\ ReadOrDefault(DiskAfter(k), log[k].item.path)
                        = log[k].item.modified
            /\ (log[k].ok /\ k < Len(log) /\ log[k + 1].kind = "mod"
                   /\ log[k + 1].item = log[k].item) =>
                 /\ log[k + 1].ok
                 /\ ReadOrDefault(DiskAfter(k + 1), log[k].item.path)
                        = ReadOrDefault(DiskAfter(k), log[k].item.path)
            /\ ~log[k].ok =>
                 /\ Len(log[k].err) = 4
                 /\ log[k].err[1] = "Failed to write "
                 /\ log[k].err[2] = log[k].item.path

\* C22 witness: a change was applied twice with success to a file that
\* held another text.
C22_Witness ==
    /\ Len(log) = 2
    /\ log[1].kind = "mod" /\ log[2].kind = "mod"
    /\ log[1].item = log[2].item
    /\ log[1].ok /\ log[2].ok
    /\ log[1].item.modified # <<>>
    /\ ReadOrDefault(log[1].before, log[1].item.path) = <<"x", "y", "x">>

\* The directories above the path, the root left out.
Ancestors(p) == {SubSeq(p, 1, n) : n \in 2..(Len(p) - 1)}

\* Every directory above the path is there or can be made: none of them
\* is a file, and a missing one lies in a directory that accepts entries
\* or that is missing as well.
DirsCreatable(disk, p) ==
    \A q \in Ancestors(p) :
        \/ Lookup(disk, q).kind \in {"dir", "rodir"}
        \/ /\ Lookup(disk, q).kind = "missing"
           /\ \/ Len(q) = 2
              \/ Lookup(disk, Parent(q)).kind \in {"dir", "missing"}

\* C23: NewFile.apply() makes the missing directories above its path and
\* then writes the content over whatever file the path holds.  When the
\* directories cannot be made the disk is left as it was and the error is
\* a directory-creation error; when the write fails the error is a write
\* error, distinct from the former, that names the path, and the content
\* at the path is untouched.
C23_NewFileApply ==
    \A k \in 1..Len(log) :
        log[k].kind = "new" =>
            LET path == log[k].item.path
                before == log[k].before
                after == DiskAfter(k)
            IN IF ~DirsCreatable(before, path)
               THEN /\ ~log[k].ok
                    /\ after = before
                    /\ Len(log[k].err) = 2
                    /\ log[k].err[1] = "Failed to create directories: "
               ELSE /\ \A q \in Ancestors(path) :
                         Lookup(after, q).kind \in {"dir", "rodir"}
                    /\ \A q \in DOMAIN before \ Ancestors(path) :
                         q # path => after[q] = before[q]
                    /\ IF log[k].ok
                       THEN /\ Lookup(after, path).kind = "file"
                            /\ ReadOrDefault(after, path) = log[k].item.content
                       ELSE /\ Lookup(after, path) = Lookup(before, path)
                            /\ Len(log[k].err) = 4
                            /\ log[k].err[1] = "Failed to write "
                            /\ log[k].err[2] = path

\* C23 witness: a new file below sub could not be created because sub is
\* a file, and the disk stayed as it was; then a new file for a.rs
\* replaced what a.rs held.
C23_Witness ==
    /\ Len(log) = 2
    /\ log[1].kind = "new" /\ log[1].item.path = PathM /\ ~log[1].ok
    /\ Lookup(log[1].before, PathSub).kind = "file"
    /\ log[2].kind = "new" /\ log[2].item.path = PathA /\ log[2].ok
    /\ ReadOrDefault(log[2].before, PathA) = <<"x", "y", "x">>
    /\ ReadOrDefault(fs, PathA) = <<"n">>

\* sub and sub/deep were missing and a new file below them was written.
DirsWereCreated ==
    \E k \in 1..Len(log) :
        /\ log[k].kind = "new" /\ log[k].ok /\ log[k].item.path = PathM
        /\ Lookup(log[k].before, PathSub).kind = "missing"
        /\ Lookup(DiskAfter(k), PathDeep).kind = "dir"

\* The directories were there and the write to a read-only file failed.
WriteFailedAfterDirs ==
    \E k \in 1..Len(log) :
        /\ log[k].kind = "new" /\ ~log[k].ok
        /\ Len(log[k].err) = 4
        /\ Lookup(log[k].before, log[k].item.path).kind = "readonly"

\* C24: ChangeSet.is_empty() answers true exactly when modifications,
\* new_files and deletions are all empty; the plan has no part in the
\* answer, so a ChangeSet that holds plan steps only is empty.
C24_IsEmpty ==
    event \in {"empty", "changes"} =>
        /\ event = "empty" <=>
              /\ Len(changes.modifications) = 0
              /\ Len(changes.new_files) = 0
              /\ Len(changes.deletions) = 0
        /\ \A cs \in ApplyChangeSets :
              (/\ cs.modifications = changes.modifications
               /\ cs.new_files = changes.new_files
               /\ cs.deletions = changes.deletions)
              => (is_empty(cs) <=> event = "empty")

\* C24 witness: a ChangeSet holding a plan and nothing else was found
\* empty.
C24_Witness ==
    /\ event = "empty"
    /\ changes.plan # <<>>
    /\ changes.modifications = <<>> /\ changes.new_files = <<>>
    /\ changes.deletions = <<>>

\* A ChangeSet holding one deletion and nothing else was found not empty.
OnlyADeletion ==
    /\ event = "changes"
    /\ changes.modifications = <<>> /\ changes.new_files = <<>>
    /\ changes.deletions # <<>>

\* The last index_file call for the path, 0 if there was none.
LastCallFor(relative_path) ==
    LET ks == {k \in 1..Len(calls) : calls[k].relative_path = relative_path}
    IN IF ks = {} THEN 0 ELSE CHOOSE k \in ks : \A j \in ks : j <= k

\* C25: the persistent index reflects the last write per relative path:
\* get_content(p) is the content of the latest index_file call for p and
\* None if there was none; needs_reindex(p, c) is false exactly when p is
\* stored and c is that content; the file count is the number of distinct
\* relative paths indexed.
C25_LastWriteWins ==
    /\ returned.op = "get_content" =>
         returned.result =
            IF LastCallFor(returned.relative_path) = 0 THEN <<>>
            ELSE <<calls[LastCallFor(returned.relative_path)].content>>
    /\ returned.op = "needs_reindex" =>
         (returned.result = FALSE <=>
            /\ LastCallFor(returned.relative_path) # 0
            /\ calls[LastCallFor(returned.relative_path)].content
                   = returned.content)
    /\ returned.op = "stats" =>
         returned.result.count
            = Cardinality({calls[k].relative_path : k \in 1..Len(calls)})

\* C25 witness: file.rs was indexed twice with different texts and another
\* path once; get_content(file.rs) returned the second text.
C25_Witness ==
    /\ Len(calls) = 3
    /\ calls[1].relative_path = "file.rs" /\ calls[2].relative_path = "src/lib.rs"
    /\ calls[3].relative_path = "file.rs"
    /\ calls[1].content # calls[3].content
    /\ returned.op = "get_content" /\ returned.relative_path = "file.rs"
    /\ returned.result = <<calls[3].content>>

\* The places where two disks differ.
Changed(before, after) ==
    {q \in DOMAIN before \cup DOMAIN after : Lookup(before, q) # Lookup(after, q)}

InsideProject(q) ==
    Len(q) >= Len(base_path) /\ SubSeq(q, 1, Len(base_path)) = base_path

FileTools == {"read_file", "write_file", "list_directory", "search_in_files"}

\* The place a path argument leads to on a disk: relative arguments start
\* at the project root and every ".." is followed.
PlaceOf(disk, arg) == Real(disk, Join(base_path, arg))

\* C26: file access by tools is limited to the project directory: for
\* every path argument, read_file, write_file, list_directory and
\* search_in_files either work on a place inside the project root, and
\* then change nothing outside of it, or fail with access denied and
\* change nothing at all.
C26_ToolsStayInProject ==
    \A k \in 1..Len(log) :
        log[k].tool.name \in FileTools =>
            \/ /\ log[k].output = "Access denied"
               /\ ~log[k].success
               /\ DiskAfter(k) = log[k].before
            \/ /\ \A q \in Changed(log[k].before, DiskAfter(k)) : InsideProject(q)
               /\ PlaceOf(log[k].before, log[k].tool.arg).ok
                     => InsideProject(PlaceOf(log[k].before, log[k].tool.arg).path)
               /\ log[k].success
                     => /\ PlaceOf(DiskAfter(k), log[k].tool.arg).ok
                        /\ InsideProject(PlaceOf(DiskAfter(k), log[k].tool.arg).path)

\* Calls that stay inside are served and calls that name a place outside
\* are refused.
ToolsServeAndRefuse ==
    /\ Len(log) = 2
    /\ log[1].tool = ToolCall("write_file", <<"new", "deep", "f.rs">>)
    /\ log[1].success
    /\ log[2].tool = ToolCall("read_file", <<"src", "..", "..", "out", "secret">>)
    /\ log[2].output = "Access denied"

\* The names of the commands of a command line, each without the
\* directory that may stand before it.
CommandNames(command) ==
    { LET name == CommandName(ShellCommands(command)[n]) IN
      IF AfterLastSlash(name) # "" THEN AfterLastSlash(name) ELSE name :
        n \in 1..Len(ShellCommands(command)) }

\* C27: dangerous commands require user confirmation: execute_tool never
\* starts a shell for an execute_bash command line in which a command,
\* the first or one after a separator of the shell, has a name of the
\* dangerous list, with or without a directory before it; such a call
\* returns needs_confirmation = true and leaves the disk alone.
C27_DangerousNeedConfirmation ==
    \A k \in 1..Len(log) :
        (/\ log[k].tool.name = "execute_bash"
         /\ CommandNames(log[k].tool.arg) \cap DANGEROUS_COMMANDS # {})
        => /\ ~log[k].ran
           /\ log[k].needs_confirmation
           /\ DiskAfter(k) = log[k].before

\* rm after a pipe, after "&&" and after ";" was held back, and a
\* harmless command was run.
DangerousHeldBack ==
    /\ Len(log) = 2
    /\ log[1].tool.arg = <<"echo", " ", "x", ";", " ", "/bin/rm", " ", "a.rs">>
    /\ log[1].needs_confirmation /\ ~log[1].ran
    /\ log[2].tool.arg = <<"echo", " ", "rm">>
    /\ log[2].ran /\ ~log[2].needs_confirmation

Summarized == pc = "summarized"

\* The number of indexed files with the extension.
FilesWith(ext) ==
    Cardinality({i \in 1..Len(index.files) : index.files[i].extension = ext})

\* The position of the first indexed file with the extension.
FirstMet(ext) ==
    CHOOSE i \in 1..Len(index.files) :
        /\ index.files[i].extension = ext
        /\ \A j \in 1..(i - 1) : index.files[j].extension # ext

ExtensionsIndexed == {index.files[i].extension : i \in 1..Len(index.files)}

\* summary() lists at most 10 extensions, each once and with its number
\* of files, in descending order of these numbers, and no extension left
\* out has more files than a listed one.
TopTenByCount(lines) ==
    /\ Len(lines) = Min(10, Cardinality(ExtensionsIndexed))
    /\ \A k \in 1..Len(lines) :
         /\ lines[k].ext \in ExtensionsIndexed
         /\ lines[k].count = FilesWith(lines[k].ext)
    /\ \A j, k \in 1..Len(lines) :
         j < k => lines[j].ext # lines[k].ext /\ lines[j].count >= lines[k].count
    /\ \A e \in ExtensionsIndexed :
         (\A k \in 1..Len(lines) : lines[k].ext # e)
         => \A k \in 1..Len(lines) : lines[k].count >= FilesWith(e)

\* C29 as stated: summary() lists at most 10 extensions, those with the
\* highest file counts, in descending count order, and of two extensions
\* with equal counts the one first met in the index comes first and is
\* the one kept.
C29_SummaryTiesByEncounter ==
    Summarized =>
        /\ TopTenByCount(returned.result)
        /\ \A j, k \in 1..Len(returned.result) :
             (j < k /\ returned.result[j].count = returned.result[k].count)
             => FirstMet(returned.result[j].ext) < FirstMet(returned.result[k].ext)
        /\ \A e \in ExtensionsIndexed :
             (\A k \in 1..Len(returned.result) : returned.result[k].ext # e)
             => \A k \in 1..Len(returned.result) :
                   returned.result[k].count = FilesWith(e)
                   => FirstMet(returned.result[k].ext) < FirstMet(e)

\* C29, amended: summary() lists at most 10 extensions, those with the
\* highest file counts, in descending count order; the order of
\* extensions with equal counts, and which of them are kept when the list
\* is cut, is not determined.
C29_SummaryTopTen == Summarized => TopTenByCount(returned.result)

\* C29 witness: of eleven extensions ten are listed, the one with two
\* files first.
C29_Witness ==
    /\ Summarized
    /\ Cardinality(ExtensionsIndexed) = 11
    /\ Len(returned.result) = 10
    /\ returned.result[1] = [ext |-> "rs", count |-> 2]

\* The agent has run index() and got nothing to work on: the root could
\* not be canonicalized, or the index holds no file.
NothingIndexed ==
    /\ frontend = "agent" /\ returned.op = "index"
    /\ ~returned.root_ok \/ index.files = <<>>

\* C30: configuration and indexing failures are fatal with no partial
\* work: when the root path cannot be canonicalized index() returns an
\* error, and then, as when the index holds no file, the agent run has
\* ended with that error reported, no request to the model was sent, no
\* reply parsed and no file written.
C30_IndexFailureIsFatal ==
    /\ (frontend = "agent" /\ returned.op = "index" /\ ~returned.root_ok)
          => (~returned.ok /\ index = EmptyIndex)
    /\ NothingIndexed =>
          /\ pc = "failed" /\ shown = <<"error">>
          /\ event = "index"
          /\ response = <<>> /\ changes = EmptyChangeSet /\ log = <<>>
          /\ fs \in SessionDisks
    /\ (frontend = "agent" /\ pc \in {"request", "confirm", "apply", "done"})
          => (returned.op = "index" /\ returned.ok /\ index.files # <<>>)

\* C30 witness: the agent was started in a project whose only file is
\* not source code, and ended with an error.
C30_Witness ==
    /\ NothingIndexed /\ returned.root_ok
    /\ entries = <<NOTES_TXT>> /\ index.files = <<>>
    /\ pc = "failed"

\* The agent was started with a root that cannot be canonicalized.
RootWasInvalid == NothingIndexed /\ ~returned.root_ok /\ pc = "failed"

\* C31: apply() writes the text captured at parse time without reading
\* the file again: when another process has changed the target file since
\* the reply was parsed, apply() succeeds all the same and the file holds
\* the FileChange's modified text, the other process's edit being lost.
C31_ExternalEditOverwritten ==
    \A k \in 1..Len(log) :
        (/\ log[k].kind = "mod"
         /\ Lookup(log[k].before, log[k].item.path).kind = "file"
         /\ ReadOrDefault(log[k].before, log[k].item.path)
                # log[k].item.original) =>
            /\ log[k].ok
            /\ Lookup(log[k].after, log[k].item.path).kind = "file"
            /\ ReadOrDefault(log[k].after, log[k].item.path)
                   = log[k].item.modified
            /\ \A q \in DOMAIN log[k].before :
                   q # log[k].item.path => log[k].after[q] = log[k].before[q]

\* C31 witness: a.rs held the text the reply was parsed against, another
\* process wrote to it, and the change was applied over that edit.
C31_Witness ==
    /\ event = "apply" /\ Len(log) = 1
    /\ log[1].kind = "mod" /\ log[1].ok
    /\ log[1].item.path = PathA /\ log[1].item.original = <<"x", "y", "x">>
    /\ ReadOrDefault(log[1].before, PathA) = <<"e">>
    /\ ReadOrDefault(fs, PathA) = log[1].item.modified

\* The blocks of the reply that were scanned for path p, by position.
BlocksFor(p) ==
    {i \in 1..Len(fragments) :
        /\ fragments[i].frag.found /\ ~fragments[i].frag.panicked
        /\ Join(base_path, CapturedPath(response[fragments[i].tag])) = p}

\* Two blocks whose ORIGINAL fragments are distinct and occur in the text
\* at places that do not overlap.
Disjoint(text, i, j) ==
    LET oi == fragments[i].frag.original
        oj == fragments[j].frag.original
    IN /\ oi # oj /\ oi # <<>> /\ oj # <<>>
       /\ Occurrences(text, oi) # {} /\ Occurrences(text, oj) # {}
       /\ \A h \in Occurrences(text, oi), k \in Occurrences(text, oj) :
              h + Len(oi) <= k \/ k + Len(oj) <= h

\* C32: edits to one file compose: when a reply holds two well-formed
\* blocks for the same path whose ORIGINAL fragments are distinct and do
\* not overlap in the file, then after all FileChanges were applied in
\* the order of the ChangeSet the file holds both replacements.
C32_EditsCompose ==
    (pc = "done" /\ log # <<>> /\ \A k \in 1..Len(log) : log[k].ok) =>
        \A p \in {log[k].item.path : k \in 1..Len(log)} :
            \A i, j \in BlocksFor(p) :
                (i < j /\ Disjoint(ReadOrDefault(log[1].before, p), i, j)) =>
                    /\ OccursIn(fragments[i].frag.modified, ReadOrDefault(fs, p))
                    /\ OccursIn(fragments[j].frag.modified, ReadOrDefault(fs, p))

\* Two blocks for a.rs with the fragments x and y were parsed and both
\* FileChanges were applied.
TwoEditsApplied ==
    /\ pc = "done" /\ Len(log) = 2
    /\ log[1].ok /\ log[2].ok
    /\ log[1].kind = "mod" /\ log[2].kind = "mod"
    /\ log[1].item.path = PathA /\ log[2].item.path = PathA
    /\ Cardinality(BlocksFor(PathA)) = 2

\* The places of the disk that an apply() call changed.
Touched(k) ==
    {q \in DOMAIN log[k].after : log[k].after[q] # Lookup(log[k].before, q)}

\* C33: applying a parsed ChangeSet never writes outside the project:
\* whatever the path attribute of a block, the path stored in the
\* FileChange or NewFile denotes a place inside base_path, and apply()
\* changes nothing outside it.
C33_PathsInsideProject ==
    /\ \A n \in 1..Len(changes.modifications) :
           LET r == Real(fs, changes.modifications[n].path) IN
           r.ok => starts_with(r.path, base_path)
    /\ \A n \in 1..Len(changes.new_files) :
           LET r == Real(fs, changes.new_files[n].path) IN
           r.ok => starts_with(r.path, base_path)
    /\ \A k \in 1..Len(log) :
           \A q \in Touched(k) : starts_with(q, base_path)

\* A file outside the project was written: /etc/hosts through an absolute
\* path, /up.rs through "..".
WroteOutside ==
    /\ ReadOrDefault(fs, <<"/", "etc", "hosts">>) = <<"g">>
    /\ ReadOrDefault(fs, <<"/", "up.rs">>) = <<"u">>

\* C35: handling one user input in the tui terminates: whatever the model
\* replies, a request issued by send_message_internal is followed, after
\* a bounded number of further requests, by its return (the panic of the
\* parser, which ends the program, set aside).
C35_TuiInputTerminates ==
    (frontend = "tui" /\ pc = "request")
        ~> (frontend = "tui" /\ pc \in {"idle", "crashed"})

\* The tui has executed a tool call and issued the next request.
ToolRoundDone == frontend = "tui" /\ event = "tool" /\ pc = "request"

\* C36: in the tui, while the mode is Ask or Plan, handling a reply of
\* the model writes nothing to the filesystem, whether the reply holds
\* file and new_file blocks or tool calls such as write_file.
C36_TuiAskPlanWriteNothing ==
    [][ (frontend = "tui" /\ mode \in {"Ask", "Plan"}) => fs' = fs ]_vars

\* In Ask mode the tui has run a write_file tool call and a.rs holds
\* what the tool wrote.
ToolWroteInAsk ==
    /\ frontend = "tui" /\ mode = "Ask" /\ event = "tool"
    /\ ReadOrDefault(fs, PathA) = <<"t">>

\* C34: compact_context preserves the pending user input: the message
\* that was last in the tui's history before the call is the last one
\* after it, whether the summary request succeeds or fails, and on
\* failure the history is exactly what it was before the call.
C34_CompactKeepsPendingInput ==
    (frontend = "tui" /\ event = "compact") =>
        /\ returned.before # <<>> =>
              /\ messages # <<>>
              /\ messages[Len(messages)]
                     = returned.before[Len(returned.before)]
        /\ ~returned.ok => messages = returned.before

\* The summary request of a compaction has failed.
CompactFailed ==
    /\ frontend = "tui" /\ event = "compact" /\ ~returned.ok
    /\ Len(returned.before) = 3

\* The summary request of a compaction has succeeded and the history is
\* the summary followed by the pending input.
CompactSucceeded ==
    /\ frontend = "tui" /\ event = "compact" /\ returned.ok
    /\ Len(returned.before) = 3 /\ Len(messages) = 2
    /\ messages[2] = returned.before[3]

\* C37: the message list sent to the model by the repl and by the tui is
\* one system message followed by messages that alternate user,
\* assistant, user, ..., and it holds nothing but the user's inputs and
\* the model's replies.
C37_SentAlternates ==
    (sent # <<>> /\ event = "send") =>
        /\ sent[1].role = "system"
        /\ \A k \in 2..Len(sent) :
              /\ sent[k].role = IF k % 2 = 0 THEN "user" ELSE "assistant"
              /\ sent[k].from \in {"input", "model"}

\* The repl sends a second input after a request that failed.
ReplSentAfterFailure ==
    /\ frontend = "repl" /\ event = "send" /\ ~run.clean
    /\ Len(sent) = 3 /\ sent[2].role = "user" /\ sent[3].role = "user"

\* The tui sends a history that holds an error notice.
TuiSentErrorNotice ==
    /\ frontend = "tui" /\ event = "send"
    /\ \E k \in 1..Len(sent) : sent[k].from = "error"

\* C38: the repl saves the chat periodically: in a run of successful
\* exchanges that starts from a history holding the system message only,
\* save_current_chat is called at least once within every four
\* exchanges.
C38_AutoSaveWithinFour ==
    (frontend = "repl" /\ run.clean) => run.unsaved < 4

\* Four exchanges in a row have succeeded since the history was the
\* system message, nine messages are held and nothing was stored.
FourExchangesUnsaved ==
    /\ frontend = "repl" /\ run.clean /\ run.unsaved = 4
    /\ Len(messages) = 9 /\ ~current_chat.stored

====
